---- MODULE Spec2Model ----
(***************************************************************************)
(* OpenC2 renderer: the interaction state machine of MapComponent, the     *)
(* asynchronous terrain sampling that feeds it an elevation-augmented      *)
(* view, and the pointer-gesture classification.                           *)
(*                                                                         *)
(* Conventions.  Arrays are sequences; every index kept in the state       *)
(* (selection, featureIndex, picked.index) is 0-based as in the source, so *)
(* element i of an array a is a[i + 1].  A nullable value is a sequence of *)
(* length 0 (null) or 1.  Longitudes and latitudes are integers in         *)
(* multiples of INTERPOLATION_POINTS so that the interpolation of a route  *)
(* segment is exact.  The nesting depth of a coordinate array, which the   *)
(* source finds with typeof coords[0] === 'number', is carried by the      *)
(* geometry type (Point 0, LineString 1, Polygon 2).                       *)
(***************************************************************************)
EXTENDS Integers, Sequences, FiniteSets, TLC

VARIABLES
    activeMode,                   \* React state activeMode
    geoJson,                      \* React state geoJson.features (the collection)
    selectedFeatureIndexes,       \* React state selectedFeatureIndexes
    missionMenu,                  \* React state missionMenu
    showMissionFlyout,            \* React state showMissionFlyout
    showHelpOverlay,              \* React state showHelpOverlay
    drawJustFinishedRef,          \* drawJustFinishedRef.current
    terrainEnabled,               \* React state terrainEnabled
    mapTerrain,                   \* map.getTerrain() is non-null
    elevatedGeoJson,              \* React state elevatedGeoJson (nullable features)
    groundRoutePathsCache,        \* React state groundRoutePathsCache
    lastGeometryHashRef,          \* lastGeometryHashRef.current (nullable)
    terrainSamplingInProgressRef, \* terrainSamplingInProgressRef.current
    pass,                         \* the suspended sampleTerrainAsync call
    terrainCache,                 \* terrainCache.cache: key -> entry
    cameraControlRef,             \* cameraControlRef.current
    rightClickRef,                \* rightClickRef.current (startTime: see elapsed)
    elapsed,                      \* Date.now() - rightClickRef.current.startTime
    buttons,                      \* buttons the host reports as held
    hostPending,                  \* event the host delivers next, if any
    gesture,                      \* observation of the current secondary gesture
    event                         \* observation of the handler that ran last

uiVars == <<activeMode, geoJson, selectedFeatureIndexes, missionMenu,
            showMissionFlyout, showHelpOverlay, drawJustFinishedRef>>
terrainVars == <<terrainEnabled, mapTerrain, elevatedGeoJson, groundRoutePathsCache,
                 lastGeometryHashRef, terrainSamplingInProgressRef, pass,
                 terrainCache>>
pointerVars == <<cameraControlRef, rightClickRef, elapsed, buttons, hostPending,
                 gesture>>
vars == <<uiVars, terrainVars, pointerVars, event>>

-----------------------------------------------------------------------------
(* Bounds of the model *)

MaxFeatures == 2
MaxTerrainFeatures == 1
MaxSamplerFeatures == 2

(* Program constants *)

HOLD_THRESHOLD == 200
TRACKPAD_STALE == 1000
TERRAIN_OFFSET == 10
INTERPOLATION_POINTS == 15
BATCH_SIZE == 5

-----------------------------------------------------------------------------
(* Small helpers *)

None == <<>>
Some(x) == <<x>>

Range(s) == {s[i] : i \in 1..Len(s)}

Min(a, b) == IF a < b THEN a ELSE b

\* Array.prototype.includes on an array of indices
Includes(arr, i) == \E k \in 1..Len(arr) : arr[k] = i

\* a.filter((_, i) => !drop.includes(i)), i 0-based
RECURSIVE FilterOutFrom(_, _, _)
FilterOutFrom(arr, k, drop) ==
    IF k > Len(arr) THEN <<>>
    ELSE IF (k - 1) \in drop
         THEN FilterOutFrom(arr, k + 1, drop)
         ELSE <<arr[k]>> \o FilterOutFrom(arr, k + 1, drop)

FilterOut(arr, drop) == FilterOutFrom(arr, 1, drop)

\* { ...a, ...b } on property objects
Spread(a, b) ==
    [k \in (DOMAIN a) \cup (DOMAIN b) |-> IF k \in DOMAIN b THEN b[k] ELSE a[k]]

EmptyProps == [k \in {} |-> 0]

\* The observation of a handler run: which handler, the mode it found, the result
\* of its pick and what else it found (menu open, help open, selection non-empty,
\* elevated view handed to the edit collaborator).
Observe(op, hit, found) ==
    event' = [op |-> op, mode |-> activeMode, hit |-> hit, found |-> found,
              forwarded |-> <<>>]

\* the observation of a handler run that hands synthetic events to the edit
\* collaborator
ObserveForwarded(op, forwarded) ==
    event' = [op |-> op, mode |-> activeMode, hit |-> None, found |-> {},
              forwarded |-> forwarded]

QuietEvent == [op |-> "other", mode |-> "", hit |-> None, found |-> {},
               forwarded |-> <<>>]

Quiet == event' = QuietEvent

-----------------------------------------------------------------------------
(* Modes and feature types *)

MODES == {"view", "modify", "nfz", "searchZone", "airRoute", "groundRoute",
          "searchPoint", "geofence"}

\* the keys the add-element menu lists
MenuKeys == {"nfz", "searchZone", "geofence", "airRoute", "groundRoute", "searchPoint"}

\* variant of the draw-mode test that takes no mode for a draw mode
IsDrawingNever(mode) == FALSE

\* currentMode !== 'view' && currentMode !== 'modify'
IsDrawing(mode) == mode # "view" /\ mode # "modify"

\* MODES[key].mode: the geometry the draw mode of the edit collaborator produces
ModeGeometry(mode) ==
    CASE mode \in {"nfz", "searchZone", "geofence"} -> "Polygon"
      [] mode \in {"airRoute", "groundRoute"} -> "LineString"
      [] OTHER -> "Point"

DEFAULT_ALTITUDES(mode) ==
    CASE mode = "geofence" -> [altitude |-> 150]
      [] mode = "nfz" -> [floor |-> 0, ceiling |-> 400]
      [] mode = "searchZone" -> [altitude |-> 100]
      [] mode = "airRoute" -> [altitude |-> 50]
      [] OTHER -> EmptyProps

Depth(geomType) ==
    CASE geomType = "Point" -> 0
      [] geomType = "LineString" -> 1
      [] OTHER -> 2

-----------------------------------------------------------------------------
(* Geometry: coordinates, the shapes the operator draws, elevation *)

\* positions the map unprojects a menu click to
ClickLngLats == {<<30, 30>>}

\* elevations the edit collaborator may attach to coordinates it reports
CollaboratorZ == {7}

\* the 2D geometries a gesture of the edit collaborator can produce
Shapes(geomType) ==
    CASE geomType = "Point" -> {<<30, 30>>, <<0, 15>>}
      [] geomType = "LineString" -> {<<<<0, 0>>, <<15, 0>>>>, <<<<0, 0>>, <<15, 15>>>>}
      [] OTHER -> {<<<<<<0, 0>>, <<15, 0>>, <<15, 15>>, <<0, 0>>>>>>,
                   <<<<<<0, 0>>, <<30, 0>>, <<15, 15>>, <<0, 0>>>>>>}

\* a geometry freshly drawn in a draw mode
DrawnShapes(geomType) ==
    CASE geomType = "Point" -> {<<0, 15>>}
      [] geomType = "LineString" -> {<<<<0, 0>>, <<15, 0>>>>}
      [] OTHER -> {<<<<<<0, 0>>, <<15, 0>>, <<15, 15>>, <<0, 0>>>>>>}

\* a coordinate array with the third component z on every coordinate
RECURSIVE WithZ(_, _, _)
WithZ(coords, depth, z) ==
    IF depth = 0 THEN <<coords[1], coords[2], z>>
    ELSE [i \in 1..Len(coords) |-> WithZ(coords[i], depth - 1, z)]

\* stripElevation variant that forgets to strip
RECURSIVE stripElevationKeep(_, _)
stripElevationKeep(coords, depth) ==
    IF depth = 0 THEN coords
    ELSE [i \in 1..Len(coords) |-> stripElevationKeep(coords[i], depth - 1)]

\* onEdit's stripElevation: keep only lng, lat of every coordinate
RECURSIVE stripElevation(_, _)
stripElevation(coords, depth) ==
    IF depth = 0 THEN <<coords[1], coords[2]>>
    ELSE [i \in 1..Len(coords) |-> stripElevation(coords[i], depth - 1)]

\* some coordinate carries a third component
RECURSIVE hasElevation(_, _)
hasElevation(coords, depth) ==
    IF depth = 0 THEN Len(coords) > 2
    ELSE \E i \in 1..Len(coords) : hasElevation(coords[i], depth - 1)

\* updatedData.features.map(f => ({...f, geometry: {..., coordinates: strip}}))
cleanData(features) ==
    [i \in 1..Len(features) |->
        [features[i] EXCEPT !.coordinates = stripElevation(@, Depth(features[i].geomType))]]

\* map.queryTerrainElevation: the terrain surface, a fixed function of the position
terrainElevation(c) == (c[1] + 2 * c[2]) \div 15

\* positions for which map.queryTerrainElevation throws
TerrainThrowsAt == {<<45, 45>>}

\* map.queryTerrainElevation({lng, lat}): it throws, or yields null without
\* terrain, or the elevation of the surface
queryTerrainElevation(c, hasTerrain) ==
    IF ~hasTerrain THEN [throws |-> FALSE, elev |-> None]
    ELSE IF <<c[1], c[2]>> \in TerrainThrowsAt THEN [throws |-> TRUE, elev |-> None]
    ELSE [throws |-> FALSE, elev |-> Some(terrainElevation(c))]

\* queryElevation whose catch block is missing the fallback: the failed query
\* counts as the surface elevation
queryElevationSurface(c, hasTerrain) ==
    (IF hasTerrain THEN terrainElevation(c) ELSE 0) + TERRAIN_OFFSET

\* queryElevation: try { return (elev || 0) + TERRAIN_OFFSET }
\* catch { return TERRAIN_OFFSET }
queryElevation(c, hasTerrain) ==
    LET q == queryTerrainElevation(c, hasTerrain)
    IN  IF q.throws THEN TERRAIN_OFFSET
        ELSE (IF q.elev = None THEN 0 ELSE q.elev[1]) + TERRAIN_OFFSET

RECURSIVE addElevationToCoords(_, _, _)
addElevationToCoords(coords, depth, hasTerrain) ==
    IF depth = 0 THEN <<coords[1], coords[2], queryElevation(coords, hasTerrain)>>
    ELSE [i \in 1..Len(coords) |-> addElevationToCoords(coords[i], depth - 1, hasTerrain)]

\* interpolateSegment(p1, p2, numPoints)[i]
interpolatePoint(p1, p2, i, numPoints) ==
    <<p1[1] + ((p2[1] - p1[1]) * i) \div numPoints,
      p1[2] + ((p2[2] - p1[2]) * i) \div numPoints>>

\* the points segment s (1-based) contributes: its first point is shifted off
\* for every segment after the first
segmentPoints(coords, s) ==
    LET first == IF s > 1 THEN 1 ELSE 0
    IN  [k \in 1..(INTERPOLATION_POINTS + 1 - first) |->
            interpolatePoint(coords[s], coords[s + 1], k - 1 + first, INTERPOLATION_POINTS)]

RECURSIVE densePointsFrom(_, _, _)
densePointsFrom(coords, s, hasTerrain) ==
    IF s > Len(coords) - 1 THEN <<>>
    ELSE LET pts == segmentPoints(coords, s)
         IN  [k \in 1..Len(pts) |-> <<pts[k][1], pts[k][2], queryElevation(pts[k], hasTerrain)>>]
             \o densePointsFrom(coords, s + 1, hasTerrain)

buildDenseGroundRoutePath(coords, hasTerrain) ==
    IF Len(coords) < 2 THEN <<>> ELSE densePointsFrom(coords, 1, hasTerrain)

\* 0-based indices of the ground routes of a collection, in order
RECURSIVE groundRouteIndexesFrom(_, _)
groundRouteIndexesFrom(features, k) ==
    IF k > Len(features) THEN <<>>
    ELSE (IF features[k].properties.featureType = "groundRoute" THEN <<k - 1>> ELSE <<>>)
         \o groundRouteIndexesFrom(features, k + 1)

groundRouteIndexes(features) == groundRouteIndexesFrom(features, 1)

\* buildGroundRouteDataWithoutTerrain variant that numbers the routes among
\* themselves
buildGroundRouteDataByOrder(features) ==
    LET idx == groundRouteIndexes(features)
    IN  [k \in 1..Len(idx) |->
            [feature |-> features[idx[k] + 1],
             featureIndex |-> k - 1,
             densePath |-> WithZ(features[idx[k] + 1].coordinates, 1, 0)]]

\* buildGroundRouteDataWithoutTerrain: featureIndex from groundRouteIndexMap,
\* flatPath = coords.map(c => [c[0], c[1], 0])
buildGroundRouteDataWithoutTerrain(features) ==
    LET idx == groundRouteIndexes(features)
    IN  [k \in 1..Len(idx) |->
            [feature |-> features[idx[k] + 1],
             featureIndex |-> idx[k],
             densePath |-> WithZ(features[idx[k] + 1].coordinates, 1, 0)]]

\* one round of the djb2 loop: hash = ((hash << 5) + hash) + code; hash = hash & hash.
\* The 32-bit value is kept as its two 16-bit halves <<high, low>>.
djb2Step(hash, code) ==
    LET low == hash[2] * 33 + code
    IN  <<(hash[1] * 33 + low \div 65536) % 65536, low % 65536>>

\* the element of a one-element set
The(S) == CHOOSE x \in S : TRUE

\* the djb2 loop run over the decimal digits of a non-negative integer
RECURSIVE djb2Digits(_, _)
djb2Digits(hash, n) ==
    IF n < 10 THEN djb2Step(hash, 48 + n)
    ELSE djb2Step(djb2Digits(hash, n \div 10), 48 + (n % 10))

\* the djb2 loop run over the characters JSON.stringify writes for a coordinate
\* array: "[" 91, the items lo..hi joined by "," 44, "]" 93
RECURSIVE djb2Json(_, _, _)
RECURSIVE djb2Items(_, _, _, _, _)
djb2Items(hash, coords, depth, lo, hi) ==
    IF lo < hi
    THEN LET mid == (lo + hi) \div 2
         IN  The({djb2Items(h, coords, depth, mid + 1, hi) :
                     h \in {djb2Items(hash, coords, depth, lo, mid)}})
    ELSE LET from == IF lo > 1 THEN djb2Step(hash, 44) ELSE hash
         IN  IF depth > 0 THEN djb2Json(from, coords[lo], depth - 1)
             ELSE IF coords[lo] < 0 THEN djb2Digits(djb2Step(from, 45), 0 - coords[lo])
             ELSE djb2Digits(from, coords[lo])

djb2Json(hash, coords, depth) ==
    IF Len(coords) = 0 THEN djb2Step(djb2Step(hash, 91), 93)
    ELSE djb2Step(djb2Items(djb2Step(hash, 91), coords, depth, 1, Len(coords)), 93)

\* the djb2 loop run over coordStrings.join('|') of the features lo..hi, "|" 124
\* !f.geometry?.coordinates: the element has no geometry, or a geometry without
\* coordinates; such an element is stored with the geometry type "none"
noCoordinates(feature) == feature.geomType = "none"

RECURSIVE djb2Features(_, _, _, _)
djb2Features(hash, features, lo, hi) ==
    IF lo < hi
    THEN LET mid == (lo + hi) \div 2
         IN  The({djb2Features(h, features, mid + 1, hi) :
                     h \in {djb2Features(hash, features, lo, mid)}})
    ELSE LET joined == IF lo > 1 THEN djb2Step(hash, 124) ELSE hash
         IN  IF noCoordinates(features[lo]) THEN joined
             ELSE djb2Json(joined, features[lo].coordinates, Depth(features[lo].geomType))

\* computeGeometryHash: 'empty' for no features, else the djb2 digest, from
\* hash = 5381, of the joined JSON of all coordinates.  hash.toString(16) writes
\* the 32-bit value one-to-one; it is written here by its two halves.
computeGeometryHash(features) ==
    IF Len(features) = 0 THEN "empty"
    ELSE ToString(djb2Features(<<0, 5381>>, features, 1, Len(features)))

-----------------------------------------------------------------------------
(* Async terrain sampling: effect 3.5 of MapComponent and sampleTerrainAsync *)

IdlePass == [features |-> <<>>, hash |-> "empty", i |-> 0,
             elevatedFeatures |-> <<>>, groundRoutePaths |-> <<>>,
             inFlight |-> 0, warm |-> {}, hung |-> FALSE]

\* TerrainCache._makeKey variant that leaves the feature index out of the key
makeKeyOfCoords(featureIndex, coords2D, depth) ==
    ToString(djb2Json(<<0, 5381>>, coords2D, depth))

\* TerrainCache._makeKey: `${featureIndex}_${hash.toString(16)}` with the djb2
\* digest of JSON.stringify(coords2D); depth is the nesting of coords2D
makeKey(featureIndex, coords2D, depth) ==
    ToString(featureIndex) \o "_" \o ToString(djb2Json(<<0, 5381>>, coords2D, depth))

EmptyCache == [k \in {} |-> 0]

\* TerrainCache.get variant without the expiry test
cacheHitAnyAge(cache, key) == key \in DOMAIN cache

\* TerrainCache.get returns entry.coords3D: the entry is there and
\* Date.now() - entry.timestamp > maxAge is false
cacheHit(cache, key) == key \in DOMAIN cache /\ ~cache[key].expired

\* the cache after TerrainCache.get on each of the keys: get deletes the entry it
\* finds expired
cacheGetAll(cache, keys) ==
    [k \in {j \in DOMAIN cache : ~(j \in keys /\ cache[j].expired)} |-> cache[k]]

\* TerrainCache.set for a set of <<key, coords3D>> pairs: Date.now() is the
\* time stamp, so the entry is not expired
cacheSetAll(cache, stored) ==
    LET keys == {p[1] : p \in stored}
    IN  [k \in (DOMAIN cache) \cup keys |->
            IF k \in keys
            THEN [coords3D |-> (CHOOSE p \in stored : p[1] = k)[2], expired |-> FALSE]
            ELSE cache[k]]

\* one element of a batch: the feature with elevation added to every coordinate
elevateFeature(feature, hasTerrain) ==
    [feature EXCEPT !.coordinates =
        addElevationToCoords(@, Depth(feature.geomType), hasTerrain)]

\* batch loop variant that takes all remaining features as one batch
batchEndAll(i, n) == n

\* features.slice(i, i + BATCH_SIZE): the index after the last feature of the
\* batch that starts at i, of n features
batchEnd(i, n) == Min(i + BATCH_SIZE, n)

\* one batch of sampleTerrainAsync, the features lo+1..hi of the collection: each
\* is taken from the cache (terrainCache.get) or sampled and cached
\* (addElevationToCoords, terrainCache.set)
\* the first index of the batch lo..hi-1 at which terrainCache.get throws, hi when
\* there is none: _makeKey reads the length of JSON.stringify(coords2D), which
\* is undefined for an element without coordinates
batchThrowsAt(features, lo, hi) ==
    LET thrown == {i \in lo..(hi - 1) : noCoordinates(features[i + 1])}
    IN  IF thrown = {} THEN hi ELSE CHOOSE i \in thrown : \A j \in thrown : i <= j

sampleBatch(features, lo, hi, hasTerrain, cache) ==
    LET keyOf(i) == makeKey(i, features[i + 1].coordinates, Depth(features[i + 1].geomType))
        misses == {i \in lo..(hi - 1) : ~cacheHit(cache, keyOf(i))}
        batch == [k \in 1..(hi - lo) |->
                     IF (lo + k - 1) \in misses
                     THEN elevateFeature(features[lo + k], hasTerrain)
                     ELSE [features[lo + k] EXCEPT
                              !.coordinates = cache[keyOf(lo + k - 1)].coords3D]]
        stored == {<<keyOf(i), batch[i - lo + 1].coordinates>> : i \in misses}
    IN  [elevated |-> batch,
         cache |-> cacheSetAll(cacheGetAll(cache, {p[1] : p \in stored}), stored)]

\* the batch loop of sampleTerrainAsync from feature i on
RECURSIVE sampleBatchesFrom(_, _, _, _)
sampleBatchesFrom(features, i, hasTerrain, cache) ==
    IF i >= Len(features) THEN [elevatedFeatures |-> <<>>, cache |-> cache]
    ELSE LET hi == batchEnd(i, Len(features))
             out == sampleBatch(features, i, hi, hasTerrain, cache)
             rest == sampleBatchesFrom(features, hi, hasTerrain, out.cache)
         IN  [elevatedFeatures |-> out.elevated \o rest.elevatedFeatures,
              cache |-> rest.cache]

\* sampleTerrainAsync from call to settlement, while the terrain of the map stays
\* as it is: what the promise resolves to and the cache the call leaves behind
sampleTerrainAsync(features, enabled, hasTerrain, cache) ==
    IF ~enabled \/ ~hasTerrain
    THEN [elevatedFeatures |-> features,
          groundRoutePaths |-> buildGroundRouteDataWithoutTerrain(features),
          cache |-> cache]
    ELSE LET batches == sampleBatchesFrom(features, 0, hasTerrain, cache)
             idx == groundRouteIndexes(features)
         IN  [elevatedFeatures |-> batches.elevatedFeatures,
              groundRoutePaths |->
                  [k \in 1..Len(idx) |->
                      [feature |-> features[idx[k] + 1],
                       featureIndex |-> idx[k],
                       densePath |-> buildDenseGroundRoutePath(
                                         features[idx[k] + 1].coordinates, hasTerrain)]],
              cache |-> batches.cache]

\* the cache when more than maxAge has passed: every entry is expired
cacheAfterMaxAge(cache) == [k \in DOMAIN cache |-> [cache[k] EXCEPT !.expired = TRUE]]

\* the property merge of the effect: elevated features take the source properties
mergeProperties(elevated, source) ==
    [i \in 1..Len(elevated) |->
        IF i > Len(source) THEN elevated[i]
        ELSE [elevated[i] EXCEPT !.properties = source[i].properties]]

\* the ground-route half of the merge: an item takes the properties of the first
\* ground route of the source whose coordinates have the same JSON as its own,
\* that is, are the same array of numbers
mergeRouteProperties(paths, source) ==
    [k \in 1..Len(paths) |->
        LET hits == {i \in 1..Len(source) :
                        /\ source[i].properties.featureType = "groundRoute"
                        /\ source[i].coordinates = paths[k].feature.coordinates}
        IN  IF hits = {} THEN paths[k]
            ELSE LET first == CHOOSE i \in hits : \A j \in hits : i <= j
                 IN  [paths[k] EXCEPT !.feature.properties = source[first].properties]]

propsNeedUpdate(elevated, source) ==
    \/ \E i \in 1..Len(source) :
          \/ i > Len(elevated)
          \/ source[i].properties # elevated[i].properties
    \/ Len(source) # Len(elevated)

\* .then / .finally of the effect: publish the result of a pass
PublishPass(elevatedFeatures, groundRoutePaths, hash) ==
    /\ elevatedGeoJson' = Some(elevatedFeatures)
    /\ groundRoutePathsCache' = groundRoutePaths
    /\ lastGeometryHashRef' = Some(hash)
    /\ terrainSamplingInProgressRef' = FALSE
    /\ pass' = IdlePass

\* the cache keys of the elements the published elevated view holds with an
\* elevation: what the last completed pass sampled or took from the cache
viewKeys ==
    IF elevatedGeoJson = None THEN {}
    ELSE {makeKey(i - 1, stripElevation(elevatedGeoJson[1][i].coordinates,
                                        Depth(elevatedGeoJson[1][i].geomType)),
                  Depth(elevatedGeoJson[1][i].geomType)) :
             i \in {j \in 1..Len(elevatedGeoJson[1]) :
                       hasElevation(elevatedGeoJson[1][j].coordinates,
                                    Depth(elevatedGeoJson[1][j].geomType))}}

\* observation: the elements of a collection that the pass before sampled at the
\* same index with the same coordinates, no longer than maxAge ago
warmIndexes(features) ==
    LET sampledKeys == viewKeys
    IN  {i \in 0..(Len(features) - 1) :
            ~noCoordinates(features[i + 1]) /\
            LET key == makeKey(i, features[i + 1].coordinates,
                               Depth(features[i + 1].geomType))
            IN  key \in sampledKeys /\ cacheHit(terrainCache, key)}

\* sampleTerrainAsync up to its first await.  hasTerrain is map.getTerrain() at the
\* time of the call.  Without terrain, and for an empty collection, the promise is
\* already settled and its continuation runs before any other event.
StartSampling(features, hash, hasTerrain) ==
    IF ~hasTerrain
    THEN /\ PublishPass(features, buildGroundRouteDataWithoutTerrain(features), hash)
         /\ UNCHANGED terrainCache
    ELSE IF Len(features) = 0
    THEN /\ PublishPass(<<>>, <<>>, hash)
         /\ UNCHANGED terrainCache
    ELSE /\ terrainSamplingInProgressRef' = TRUE
         /\ pass' = [features |-> features, hash |-> hash, i |-> 0,
                     elevatedFeatures |-> <<>>, groundRoutePaths |-> <<>>,
                     inFlight |-> pass.inFlight + 1,
                     warm |-> warmIndexes(features), hung |-> FALSE]
         /\ UNCHANGED <<elevatedGeoJson, groundRoutePathsCache, lastGeometryHashRef,
                        terrainCache>>

\* the effect's guard against concurrent sampling, switched off
samplingGuardOff(inProgress) == FALSE

\* Effect 3.5: if (terrainSamplingInProgressRef.current) return
samplingGuard(inProgress) == inProgress

\* Effect 3.5, run after a render in which geoJson or terrainEnabled changed.
\* features and enabled are the new values; hasTerrain is map.getTerrain() now.
SamplingEffect(features, enabled, hasTerrain) ==
    LET currentHash == computeGeometryHash(features)
        geometryChanged == lastGeometryHashRef # Some(currentHash)
        needsResampling == geometryChanged \/ (enabled /\ elevatedGeoJson = None)
    IN  IF enabled /\ elevatedGeoJson # None /\ ~needsResampling
        THEN /\ IF propsNeedUpdate(elevatedGeoJson[1], features)
                THEN /\ elevatedGeoJson' = Some(mergeProperties(elevatedGeoJson[1], features))
                     /\ groundRoutePathsCache' =
                            mergeRouteProperties(groundRoutePathsCache, features)
                ELSE UNCHANGED <<elevatedGeoJson, groundRoutePathsCache>>
             /\ UNCHANGED <<lastGeometryHashRef, terrainSamplingInProgressRef, pass,
                            terrainCache>>
        ELSE IF samplingGuard(terrainSamplingInProgressRef)
        THEN UNCHANGED <<elevatedGeoJson, groundRoutePathsCache, lastGeometryHashRef,
                         terrainSamplingInProgressRef, pass, terrainCache>>
        ELSE IF ~enabled
        THEN /\ terrainCache' = EmptyCache
             /\ elevatedGeoJson' = None
             /\ groundRoutePathsCache' = <<>>
             /\ lastGeometryHashRef' = None
             /\ UNCHANGED <<terrainSamplingInProgressRef, pass>>
        ELSE StartSampling(features, currentHash, hasTerrain)

\* setGeoJson(features) and the effect it triggers
SetGeoJson(features) ==
    /\ geoJson' = features
    /\ SamplingEffect(features, terrainEnabled, mapTerrain)
    /\ UNCHANGED <<terrainEnabled, mapTerrain>>

KeepGeoJson == UNCHANGED <<geoJson, terrainVars>>

\* the ground routes of a pass in the order sampleTerrainAsync handles them
passRoutes == groundRouteIndexes(pass.features)

\* the elements of the batch that starts at pass.i, as 0-based indexes
batchIndexes == (pass.i)..(batchEnd(pass.i, Len(pass.features)) - 1)

\* terrainCache.get(featureIndex, coords2D) returns null for these
batchMisses ==
    {i \in batchIndexes :
        ~cacheHit(terrainCache, makeKey(i, pass.features[i + 1].coordinates,
                                        Depth(pass.features[i + 1].geomType)))}

\* the elements for which the next resumption of the pass queries the terrain:
\* the cache misses of a batch, or the ground route whose dense path is built
stepQueries ==
    IF pass.i < Len(pass.features) THEN batchMisses
    ELSE {passRoutes[Len(pass.groundRoutePaths) + 1]}

\* One resumption of the suspended sampleTerrainAsync: the next batch of at most
\* BATCH_SIZE features, each taken from the cache or sampled and cached, or,
\* after the batches, the dense path of the next ground route, which is always
\* sampled.  After the last awaited piece the promise settles and is published.
SamplingStep ==
    /\ terrainSamplingInProgressRef
    /\ ~pass.hung
    /\ LET n == Len(pass.features)
           routes == passRoutes
           r == Len(pass.groundRoutePaths)
       IN  IF pass.i < n
           THEN LET hi == batchEnd(pass.i, n)
                    stop == batchThrowsAt(pass.features, pass.i, hi)
                    out == sampleBatch(pass.features, pass.i, stop, mapTerrain, terrainCache)
                    done == pass.elevatedFeatures \o out.elevated
                IN  /\ terrainCache' = out.cache
                    /\ IF stop < hi
                       THEN /\ pass' = [pass EXCEPT !.hung = TRUE]
                            /\ UNCHANGED <<elevatedGeoJson, groundRoutePathsCache,
                                           lastGeometryHashRef, terrainSamplingInProgressRef>>
                       ELSE IF hi = n /\ Len(routes) = 0
                       THEN PublishPass(done, <<>>, pass.hash)
                       ELSE /\ pass' = [pass EXCEPT !.i = hi, !.elevatedFeatures = done]
                            /\ UNCHANGED <<elevatedGeoJson, groundRoutePathsCache,
                                           lastGeometryHashRef, terrainSamplingInProgressRef>>
           ELSE LET idx == routes[r + 1]
                    item == [feature |-> pass.features[idx + 1],
                             featureIndex |-> idx,
                             densePath |-> buildDenseGroundRoutePath(
                                               pass.features[idx + 1].coordinates, mapTerrain)]
                    paths == Append(pass.groundRoutePaths, item)
                IN  /\ UNCHANGED terrainCache
                    /\ IF r + 1 = Len(routes)
                       THEN PublishPass(pass.elevatedFeatures, paths, pass.hash)
                       ELSE /\ pass' = [pass EXCEPT !.groundRoutePaths = paths]
                            /\ UNCHANGED <<elevatedGeoJson, groundRoutePathsCache,
                                           lastGeometryHashRef, terrainSamplingInProgressRef>>
    /\ UNCHANGED <<uiVars, terrainEnabled, mapTerrain, pointerVars>>
    /\ Quiet

\* More than maxAge passes: every entry the cache holds is expired from now on
CacheExpire ==
    /\ \E k \in DOMAIN terrainCache : ~terrainCache[k].expired
    /\ terrainCache' = cacheAfterMaxAge(terrainCache)
    /\ pass' = [pass EXCEPT !.warm = {}]
    /\ UNCHANGED <<terrainEnabled, mapTerrain, elevatedGeoJson, groundRoutePathsCache,
                   lastGeometryHashRef, terrainSamplingInProgressRef>>
    /\ UNCHANGED <<uiVars, pointerVars>>
    /\ Quiet

-----------------------------------------------------------------------------
(* What the render collaborator draws and what a pick can report *)

\* effect 4: the view handed to the layers and to the edit collaborator
dataWithElevation ==
    IF terrainEnabled /\ elevatedGeoJson # None THEN elevatedGeoJson[1] ELSE geoJson

viewIsElevated ==
    \E i \in 1..Len(dataWithElevation) :
        hasElevation(dataWithElevation[i].coordinates, Depth(dataWithElevation[i].geomType))

ZonedTypes == {"geofence", "nfz", "searchZone"}

\* zonedFeatures.forEach: coords = coordinates[0] || coordinates, the outline ring
outlineRing(feature) ==
    IF Len(feature.coordinates) = 0 THEN feature.coordinates ELSE feature.coordinates[1]

\* zonedFeatures.forEach variant whose guard lets an outline of one coordinate pass
outlineTooShortEmpty(coords) == Len(coords) < 1

\* zonedFeatures.forEach: if (!Array.isArray(coords) || coords.length < 2) return
outlineTooShort(coords) == Len(coords) < 2

\* featureIndex of the walls, borders and ceilings: the position in the view
zonedFeatureIndexes ==
    {i \in 0..(Len(dataWithElevation) - 1) :
        /\ dataWithElevation[i + 1].properties.featureType \in ZonedTypes
        /\ ~outlineTooShort(outlineRing(dataWithElevation[i + 1]))}

\* a || d of the source on a numeric property: an absent value and a stored 0
\* both give d
propertyOr(props, name, d) ==
    IF name \in DOMAIN props /\ props[name] # 0 THEN props[name] ELSE d

\* Elevation Profile: baseOffset is 0, or properties.floor || 0 for a no-fly zone
baseOffset(feature) ==
    IF feature.properties.featureType = "nfz"
    THEN propertyOr(feature.properties, "floor", 0)
    ELSE 0

\* Elevation Profile: topOffset is properties.altitude || (geofence ? 150 : 100),
\* or properties.ceiling || 400 for a no-fly zone
topOffset(feature) ==
    IF feature.properties.featureType = "nfz"
    THEN propertyOr(feature.properties, "ceiling", 400)
    ELSE propertyOr(feature.properties, "altitude",
                    IF feature.properties.featureType = "geofence" THEN 150 ELSE 100)

\* [c[0], c[1], (c[2] || 0) + offset]
lifted(c, offset) == <<c[1], c[2], (IF Len(c) > 2 THEN c[3] ELSE 0) + offset>>

\* STYLE_MAP variant with a cap for every zoned type
styleCapAll(featureType) == TRUE

\* STYLE_MAP[type].cap is not null
styleCap(featureType) == featureType \in {"nfz", "searchZone"}

\* isClosed: the first and the last coordinate of the ring agree in lng and lat
isClosed(coords) ==
    /\ coords[1][1] = coords[Len(coords)][1]
    /\ coords[1][2] = coords[Len(coords)][2]

\* loopCount variant that walks every coordinate of the ring
loopCountAll(coords) == Len(coords)

\* loopCount = isClosed ? coords.length - 1 : coords.length
loopCount(coords) == IF isClosed(coords) THEN Len(coords) - 1 ELSE Len(coords)

\* Build Wall Quads: one quad per i < loopCount over p1 = coords[i] and
\* p2 = coords[(i + 1) % coords.length]
wallQuads(featureIndex, feature) ==
    LET coords == outlineRing(feature)
    IN  [i \in 1..loopCount(coords) |->
            LET p1 == coords[i]
                p2 == coords[(i % Len(coords)) + 1]
            IN  [featureIndex |-> featureIndex,
                 polygon |-> <<lifted(p1, baseOffset(feature)), lifted(p2, baseOffset(feature)),
                               lifted(p2, topOffset(feature)), lifted(p1, topOffset(feature))>>]]

\* the outline lifted to topOffset: the path of the border, the polygon of the ceiling
liftedOutline(feature) ==
    [j \in 1..Len(outlineRing(feature)) |-> lifted(outlineRing(feature)[j], topOffset(feature))]

\* zonedFeatures.forEach over the view from element k on: the wallSegments,
\* borderData and ceilingData pushed, in order
RECURSIVE extrudeFrom(_, _)
extrudeFrom(view, k) ==
    IF k > Len(view)
    THEN [wallSegments |-> <<>>, borderData |-> <<>>, ceilingData |-> <<>>]
    ELSE LET rest == extrudeFrom(view, k + 1)
         IN  IF (k - 1) \notin zonedFeatureIndexes THEN rest
             ELSE [wallSegments |-> wallQuads(k - 1, view[k]) \o rest.wallSegments,
                   borderData |->
                       <<[featureIndex |-> k - 1, path |-> liftedOutline(view[k])]>>
                       \o rest.borderData,
                   ceilingData |->
                       (IF styleCap(view[k].properties.featureType)
                        THEN <<[featureIndex |-> k - 1, polygon |-> liftedOutline(view[k])]>>
                        ELSE <<>>)
                       \o rest.ceilingData]

\* the zoned layers of effect 4
extrusion == extrudeFrom(dataWithElevation, 1)

\* the air-route layer: featureIndex is the position in the view, the path is
\* lifted by properties.altitude || 50
airRouteData ==
    LET idx == {i \in 1..Len(dataWithElevation) :
                   dataWithElevation[i].properties.featureType = "airRoute"}
    IN  {[featureIndex |-> i - 1,
          path |-> [j \in 1..Len(dataWithElevation[i].coordinates) |->
                       lifted(dataWithElevation[i].coordinates[j],
                              propertyOr(dataWithElevation[i].properties, "altitude", 50))]] :
            i \in idx}

airRouteFeatureIndexes ==
    {i \in 0..(Len(dataWithElevation) - 1) :
        dataWithElevation[i + 1].properties.featureType = "airRoute"}

\* groundRouteData: the sampled paths or, without them, the flat fallback whose
\* featureIndex is the position among the ground routes only
groundRouteData ==
    IF terrainEnabled /\ Len(groundRoutePathsCache) > 0
    THEN groundRoutePathsCache
    ELSE LET idx == groundRouteIndexes(geoJson)
         IN  [k \in 1..Len(idx) |->
                 [feature |-> geoJson[idx[k] + 1],
                  featureIndex |-> k - 1,
                  densePath |-> WithZ(geoJson[idx[k] + 1].coordinates, 1, 0)]]

groundRouteFeatureIndexes == {groundRouteData[k].featureIndex : k \in 1..Len(groundRouteData)}

\* overlay.pickObject: nothing, an exception, a derived primitive (its object
\* carries featureIndex) or an element of the editable layer (index in the view)
PickResults ==
    {[kind |-> "none", index |-> 0], [kind |-> "throws", index |-> 0]}
    \cup {[kind |-> "object", index |-> i] :
             i \in zonedFeatureIndexes \cup airRouteFeatureIndexes \cup groundRouteFeatureIndexes}
    \cup {[kind |-> "editable", index |-> i] : i \in 0..(Len(dataWithElevation) - 1)}

\* pickFeatureAt variant that ignores the fill of every zoned type
fillNotPickableZoned(featureType) == featureType \in ZonedTypes

\* pickFeatureAt: the types whose fill in the editable layer is not selectable
fillNotPickable(featureType) == featureType = "geofence"

\* pickFeatureAt variant whose catch block reports the first element
pickFailureHit == Some(0)

\* pickFeatureAt: catch (err) { console.warn(...) } return null
pickFailure == None

\* pickFeatureAt: the index of the picked element or null
pickFeatureAt(picked) ==
    CASE picked.kind = "object" -> Some(picked.index)
      [] picked.kind = "editable" ->
            IF /\ picked.index < Len(geoJson)
               /\ fillNotPickable(geoJson[picked.index + 1].properties.featureType)
            THEN None
            ELSE Some(picked.index)
      [] picked.kind = "throws" -> pickFailure
      [] OTHER -> None

-----------------------------------------------------------------------------
(* Handlers of the interaction state machine *)

ClosedMenu == [visible |-> FALSE, lngLat |-> None, featureIndex |-> None]


\* showContextMenuAt: cancel a drawing, or open the feature menu or the add menu
showContextMenuAt(picked, lngLat) ==
    LET featureIdx == pickFeatureAt(picked)
    IN  /\ IF IsDrawing(activeMode)
           THEN /\ activeMode' = "view"
                /\ selectedFeatureIndexes' = <<>>
                /\ UNCHANGED missionMenu
           ELSE IF featureIdx # None
           THEN /\ selectedFeatureIndexes' = <<featureIdx[1]>>
                /\ missionMenu' = [visible |-> TRUE, lngLat |-> Some(lngLat),
                                   featureIndex |-> featureIdx]
                /\ UNCHANGED activeMode
           ELSE /\ IF activeMode = "modify"
                   THEN activeMode' = "view" /\ selectedFeatureIndexes' = <<>>
                   ELSE UNCHANGED <<activeMode, selectedFeatureIndexes>>
                /\ missionMenu' = [visible |-> TRUE, lngLat |-> Some(lngLat),
                                   featureIndex |-> None]
        /\ UNCHANGED <<showMissionFlyout, showHelpOverlay, drawJustFinishedRef>>
        /\ KeepGeoJson

\* handleDblClick variant that also acts in modify mode
dblClickSelectsIn(mode) == mode = "view" \/ mode = "modify"

\* handleDblClick, Scenario B: the modes in which a double-click picks
dblClickSelects(mode) == mode = "view"

\* handleDblClick variant without Scenario A
dblClickFinishesNever(mode) == FALSE

\* handleDblClick, Scenario A: the modes in which a double-click finishes a shape
dblClickFinishes(mode) == IsDrawing(mode)

\* the synthetic events Scenario A hands to overlay._deck._onEvent, in order
finishSignal == <<"dblclick", "keyup Enter">>

\* handleDblClick.  In a draw mode the finish signal goes to the edit collaborator,
\* whose commit arrives as onEdit; nothing is changed here.  The observation
\* carries what the pick at the point returns and, when the handler has called
\* pickFeatureAt, the kind of primitive under the point.
handleDblClick(picked) ==
    LET featureIdx == pickFeatureAt(picked)
        picks == ~dblClickFinishes(activeMode) /\ dblClickSelects(activeMode)
        hit == picks /\ featureIdx # None
    IN  /\ IF hit
           THEN /\ selectedFeatureIndexes' = <<featureIdx[1]>>
                /\ activeMode' = "modify"
                /\ showMissionFlyout' = TRUE
           ELSE UNCHANGED <<selectedFeatureIndexes, activeMode, showMissionFlyout>>
        /\ UNCHANGED <<missionMenu, showHelpOverlay, drawJustFinishedRef>>
        /\ KeepGeoJson
        /\ IF dblClickFinishes(activeMode)
           THEN ObserveForwarded("dblclick", finishSignal)
           ELSE Observe("dblclick", IF IsDrawing(activeMode) THEN None ELSE featureIdx,
                        IF picks THEN {picked.kind} ELSE {})

HandleDblClick ==
    /\ \E picked \in PickResults : handleDblClick(picked)
    /\ UNCHANGED pointerVars

\* handleClick variant that adds the picked element to the selection
clickSelectionAdds(selected, featureIdx) == Append(selected, featureIdx)

\* handleClick: setSelectedFeatureIndexes([featureIdx])
clickSelection(selected, featureIdx) == <<featureIdx>>

\* handleClick
handleClick(altKey, picked) ==
    LET featureIdx == pickFeatureAt(picked)
    IN  /\ IF altKey
           THEN UNCHANGED <<missionMenu, selectedFeatureIndexes, showMissionFlyout>>
           ELSE IF missionMenu.visible
           THEN /\ missionMenu' = [missionMenu EXCEPT !.visible = FALSE]
                /\ UNCHANGED <<selectedFeatureIndexes, showMissionFlyout>>
           ELSE IF activeMode # "view"
           THEN UNCHANGED <<missionMenu, selectedFeatureIndexes, showMissionFlyout>>
           ELSE IF featureIdx # None
           THEN /\ selectedFeatureIndexes' =
                      clickSelection(selectedFeatureIndexes, featureIdx[1])
                /\ showMissionFlyout' = TRUE
                /\ UNCHANGED missionMenu
           ELSE /\ selectedFeatureIndexes' = <<>>
                /\ UNCHANGED <<missionMenu, showMissionFlyout>>
        /\ UNCHANGED <<activeMode, showHelpOverlay, drawJustFinishedRef>>
        /\ KeepGeoJson
        /\ IF ~altKey /\ ~missionMenu.visible /\ activeMode = "view"
              /\ picked.kind = "throws"
           THEN Observe("click", None, {"throws"})
           ELSE Quiet

HandleClick ==
    /\ \E altKey \in BOOLEAN, picked \in PickResults : handleClick(altKey, picked)
    /\ UNCHANGED pointerVars

Keys == {"Escape", "Enter", "Backspace", "Delete"}

\* Escape branch variant without the help-overlay early return
escapeClosesHelpOnlyNever(help) == FALSE

\* handleKeyDown, Escape: an open help overlay takes the key press alone
escapeClosesHelpOnly(help) == help

\* Enter branch variant that never leaves modify mode
enterExitsModifyNever(mode) == FALSE

\* handleKeyDown, Enter: state.activeMode === 'modify'
enterExitsModify(mode) == mode = "modify"

\* handleKeyDown variant whose Delete keeps the current mode
modeAfterDeleteKeep(mode) == mode

\* handleKeyDown, Delete/Backspace: setActiveMode('view')
modeAfterDelete(mode) == "view"

\* handleKeyDown
handleKeyDown(key) ==
    /\ CASE key = "Escape" ->
              IF escapeClosesHelpOnly(showHelpOverlay)
              THEN /\ showHelpOverlay' = FALSE
                   /\ UNCHANGED <<missionMenu, activeMode, selectedFeatureIndexes,
                                  showMissionFlyout, drawJustFinishedRef>>
                   /\ KeepGeoJson
              ELSE /\ missionMenu' = [missionMenu EXCEPT !.visible = FALSE]
                   /\ IF activeMode # "view"
                      THEN /\ activeMode' = "view"
                           /\ selectedFeatureIndexes' = <<>>
                           /\ UNCHANGED showMissionFlyout
                      ELSE /\ showMissionFlyout' = FALSE
                           /\ UNCHANGED <<activeMode, selectedFeatureIndexes>>
                   /\ drawJustFinishedRef' = FALSE
                   /\ UNCHANGED showHelpOverlay
                   /\ KeepGeoJson
         [] key = "Enter" ->
              /\ IF enterExitsModify(activeMode)
                 THEN activeMode' = "view" /\ selectedFeatureIndexes' = <<>>
                 ELSE UNCHANGED <<activeMode, selectedFeatureIndexes>>
              /\ UNCHANGED <<missionMenu, showMissionFlyout, showHelpOverlay,
                             drawJustFinishedRef>>
              /\ KeepGeoJson
         [] OTHER ->
              IF Len(selectedFeatureIndexes) > 0
              THEN /\ SetGeoJson(FilterOut(geoJson, Range(selectedFeatureIndexes)))
                   /\ selectedFeatureIndexes' = <<>>
                   /\ activeMode' = modeAfterDelete(activeMode)
                   /\ UNCHANGED <<missionMenu, showMissionFlyout, showHelpOverlay,
                                  drawJustFinishedRef>>
              ELSE /\ UNCHANGED uiVars
                   /\ UNCHANGED terrainVars
    /\ CASE key = "Escape" ->
              Observe("Escape", None, {f \in {"menu"} : missionMenu.visible}
                                      \cup {f \in {"help"} : showHelpOverlay})
         [] key = "Enter" -> Observe("Enter", None, {})
         [] OTHER ->
              Observe("Delete", None, {f \in {"selected"} : Len(selectedFeatureIndexes) > 0})

HandleKeyDown ==
    /\ \E key \in Keys : handleKeyDown(key)
    /\ UNCHANGED pointerVars

-----------------------------------------------------------------------------
(* The edit-geometry collaborator: EditableGeoJsonLayer's onEdit *)

\* the coordinates the collaborator reports for a shape: 2D, or with an elevation
ReportedCoords(shape, geomType) ==
    {shape} \cup {WithZ(shape, Depth(geomType), z) : z \in CollaboratorZ}

\* onEdit: featureType: activeMode
newFeatureType(mode) == mode

\* onEdit, editType 'addFeature': updatedData is the view plus the drawn feature
onEditAddFeature(updatedData) ==
    LET clean == cleanData(updatedData)
        lastIdx == Len(clean) - 1
        altitudeProps == DEFAULT_ALTITUDES(activeMode)
        finalData == [i \in 1..Len(clean) |->
                         IF i - 1 = lastIdx
                         THEN [clean[i] EXCEPT !.properties =
                                  Spread(Spread(@, [featureType |-> newFeatureType(activeMode)]),
                                         altitudeProps)]
                         ELSE clean[i]]
    IN  /\ drawJustFinishedRef' = TRUE
        /\ SetGeoJson(finalData)
        /\ activeMode' = "view"
        /\ selectedFeatureIndexes' = <<lastIdx>>
        /\ showMissionFlyout' =
              IF activeMode \in {"geofence", "nfz", "searchZone", "airRoute"}
              THEN TRUE ELSE showMissionFlyout
        /\ UNCHANGED <<missionMenu, showHelpOverlay>>

\* onEdit, any other editType: setGeoJson(cleanData)
onEditOther(updatedData) ==
    /\ SetGeoJson(cleanData(updatedData))
    /\ UNCHANGED <<activeMode, selectedFeatureIndexes, missionMenu, showMissionFlyout,
                   showHelpOverlay, drawJustFinishedRef>>

\* A draw gesture commits: the collaborator appends the drawn feature to the data
\* it was handed and reports addFeature.
OnEditAddFeatureUpTo(limit) ==
    /\ IsDrawing(activeMode)
    /\ Len(dataWithElevation) < limit
    /\ \E shape \in DrawnShapes(ModeGeometry(activeMode)) :
       \E coords \in ReportedCoords(shape, ModeGeometry(activeMode)) :
          onEditAddFeature(Append(dataWithElevation,
              [geomType |-> ModeGeometry(activeMode), coordinates |-> coords,
               properties |-> EmptyProps]))
    /\ Observe("addFeature", None, {f \in {"elevated"} : viewIsElevated})
    /\ UNCHANGED pointerVars

OnEditAddFeature == OnEditAddFeatureUpTo(MaxFeatures)

\* A click while drawing: the collaborator reports a tentative position; its
\* updatedData is the data it was handed.
OnEditTentative ==
    /\ IsDrawing(activeMode)
    /\ onEditOther(dataWithElevation)
    /\ Observe("addTentativePosition", None, {f \in {"elevated"} : viewIsElevated})
    /\ UNCHANGED pointerVars

\* A vertex edit in modify mode: the collaborator replaces the geometry of a
\* selected feature of the data it was handed.
OnEditModify ==
    /\ activeMode = "modify"
    /\ \E i \in Range(selectedFeatureIndexes) :
          /\ i < Len(dataWithElevation)
          /\ LET f == dataWithElevation[i + 1]
             IN  \E shape \in Shapes(f.geomType) :
                 \E coords \in ReportedCoords(shape, f.geomType) :
                    onEditOther([dataWithElevation EXCEPT ![i + 1].coordinates = coords])
          /\ Observe("movePosition", Some(i), {f \in {"elevated"} : viewIsElevated})
    /\ UNCHANGED pointerVars

-----------------------------------------------------------------------------
(* Context menu items, flyout and toolbar *)

\* feature context menu: Edit Shape
FeatureMenuEdit ==
    /\ missionMenu.visible /\ missionMenu.featureIndex # None
    /\ missionMenu' = ClosedMenu
    /\ selectedFeatureIndexes' = <<missionMenu.featureIndex[1]>>
    /\ activeMode' = "modify"
    /\ showMissionFlyout' = TRUE
    /\ UNCHANGED <<showHelpOverlay, drawJustFinishedRef>>
    /\ KeepGeoJson
    /\ Quiet
    /\ UNCHANGED pointerVars

\* feature context menu: Properties
FeatureMenuProperties ==
    /\ missionMenu.visible /\ missionMenu.featureIndex # None
    /\ missionMenu' = ClosedMenu
    /\ selectedFeatureIndexes' = <<missionMenu.featureIndex[1]>>
    /\ showMissionFlyout' = TRUE
    /\ UNCHANGED <<activeMode, showHelpOverlay, drawJustFinishedRef>>
    /\ KeepGeoJson
    /\ Quiet
    /\ UNCHANGED pointerVars

\* feature context menu: Delete
FeatureMenuDelete ==
    /\ missionMenu.visible /\ missionMenu.featureIndex # None
    /\ missionMenu' = ClosedMenu
    /\ SetGeoJson(FilterOut(geoJson, {missionMenu.featureIndex[1]}))
    /\ selectedFeatureIndexes' = <<>>
    /\ activeMode' = "view"
    /\ UNCHANGED <<showMissionFlyout, showHelpOverlay, drawJustFinishedRef>>
    /\ Quiet
    /\ UNCHANGED pointerVars

\* either menu: Copy Coordinates
MenuCopyCoordinates ==
    /\ missionMenu.visible
    /\ missionMenu' = ClosedMenu
    /\ UNCHANGED <<activeMode, selectedFeatureIndexes, showMissionFlyout,
                   showHelpOverlay, drawJustFinishedRef>>
    /\ KeepGeoJson
    /\ Quiet
    /\ UNCHANGED pointerVars

\* add-element menu onClick that leaves the selection as it is when a draw mode
\* is chosen
AddMenuChooseKeepsSelection(keys, limit) ==
    /\ missionMenu.visible /\ missionMenu.featureIndex = None
    /\ \E key \in keys :
          /\ missionMenu' = ClosedMenu
          /\ IF key = "searchPoint" /\ missionMenu.lngLat # None
             THEN /\ Len(geoJson) < limit
                  /\ SetGeoJson(Append(geoJson,
                         [geomType |-> "Point", coordinates |-> missionMenu.lngLat[1],
                          properties |-> [featureType |-> "searchPoint"]]))
                  /\ selectedFeatureIndexes' = <<Len(geoJson)>>
                  /\ activeMode' = "view"
             ELSE /\ activeMode' = key
                  /\ UNCHANGED selectedFeatureIndexes
                  /\ KeepGeoJson
          /\ showMissionFlyout' = TRUE
          /\ Quiet
    /\ UNCHANGED <<showHelpOverlay, drawJustFinishedRef>>
    /\ UNCHANGED pointerVars

\* add-element menu: a search point is placed at once, any other key starts a drawing
AddMenuChooseFrom(keys, limit) ==
    /\ missionMenu.visible /\ missionMenu.featureIndex = None
    /\ \E key \in keys :
          /\ missionMenu' = ClosedMenu
          /\ IF key = "searchPoint" /\ missionMenu.lngLat # None
             THEN /\ Len(geoJson) < limit
                  /\ SetGeoJson(Append(geoJson,
                         [geomType |-> "Point", coordinates |-> missionMenu.lngLat[1],
                          properties |-> [featureType |-> "searchPoint"]]))
                  /\ selectedFeatureIndexes' = <<Len(geoJson)>>
                  /\ activeMode' = "view"
             ELSE /\ activeMode' = key
                  /\ selectedFeatureIndexes' = <<>>
                  /\ KeepGeoJson
          /\ showMissionFlyout' = TRUE
          /\ Quiet
    /\ UNCHANGED <<showHelpOverlay, drawJustFinishedRef>>
    /\ UNCHANGED pointerVars

AddMenuChoose == AddMenuChooseFrom(MenuKeys, MaxFeatures)

\* flyout: click on the row of element i
FlyoutRowClick ==
    /\ showMissionFlyout
    /\ \E i \in 0..(Len(geoJson) - 1) :
          /\ IF Includes(selectedFeatureIndexes, i)
             THEN selectedFeatureIndexes' = <<>> /\ activeMode' = "view"
             ELSE selectedFeatureIndexes' = <<i>> /\ activeMode' = "modify"
          /\ Quiet
    /\ UNCHANGED <<missionMenu, showMissionFlyout, showHelpOverlay, drawJustFinishedRef>>
    /\ KeepGeoJson
    /\ UNCHANGED pointerVars

\* values typed into an altitude, floor or ceiling input
PropValues == {0}

\* the inputs the flyout shows for a feature type
PropNames(featureType) ==
    CASE featureType = "nfz" -> {"floor", "ceiling"}
      [] featureType \in {"geofence", "searchZone", "airRoute"} -> {"altitude"}
      [] OTHER -> {}

\* flyout: updateFeatureProperty(propName, value) of the selected element i
UpdateFeatureProperty ==
    /\ showMissionFlyout
    /\ \E i \in 0..(Len(geoJson) - 1) :
          /\ Includes(selectedFeatureIndexes, i)
          /\ \E propName \in PropNames(geoJson[i + 1].properties.featureType),
                value \in PropValues :
                /\ SetGeoJson([geoJson EXCEPT ![i + 1].properties =
                                  Spread(@, [p \in {propName} |-> value])])
                /\ Observe("updateFeatureProperty", Some(i), {})
    /\ UNCHANGED <<activeMode, selectedFeatureIndexes, missionMenu, showMissionFlyout,
                   showHelpOverlay, drawJustFinishedRef>>
    /\ UNCHANGED pointerVars

\* flyout: Delete button of the selected element i
FlyoutDelete ==
    /\ showMissionFlyout
    /\ \E i \in 0..(Len(geoJson) - 1) :
          /\ Includes(selectedFeatureIndexes, i)
          /\ SetGeoJson(FilterOut(geoJson, {i}))
          /\ Quiet
    /\ selectedFeatureIndexes' = <<>>
    /\ activeMode' = "view"
    /\ UNCHANGED <<missionMenu, showMissionFlyout, showHelpOverlay, drawJustFinishedRef>>
    /\ UNCHANGED pointerVars

\* toolbar: mission flyout toggle
ToggleFlyout ==
    /\ showMissionFlyout' = ~showMissionFlyout
    /\ UNCHANGED <<activeMode, selectedFeatureIndexes, missionMenu, showHelpOverlay,
                   drawJustFinishedRef>>
    /\ KeepGeoJson
    /\ Quiet
    /\ UNCHANGED pointerVars

\* status bar help button, and the close controls of the help overlay
ToggleHelp ==
    /\ showHelpOverlay' = ~showHelpOverlay
    /\ UNCHANGED <<activeMode, selectedFeatureIndexes, missionMenu, showMissionFlyout,
                   drawJustFinishedRef>>
    /\ KeepGeoJson
    /\ Quiet
    /\ UNCHANGED pointerVars

\* toolbar: terrain toggle.  The sampling effect runs before the toggle effect
\* applies or removes the terrain of the map.
ToggleTerrain ==
    /\ terrainEnabled' = ~terrainEnabled
    /\ SamplingEffect(geoJson, ~terrainEnabled, mapTerrain)
    /\ mapTerrain' = ~terrainEnabled
    /\ UNCHANGED uiVars
    /\ Quiet
    /\ UNCHANGED pointerVars

\* A secondary-button tap, once classified by the pointer handlers below, calls
\* showContextMenuAt.
SecondaryTap ==
    /\ \E picked \in PickResults, lngLat \in ClickLngLats :
          /\ showContextMenuAt(picked, lngLat)
          /\ IF ~IsDrawing(activeMode) /\ picked.kind = "throws"
             THEN Observe("tap", None, {"throws"})
             ELSE Quiet
    /\ UNCHANGED pointerVars

-----------------------------------------------------------------------------
(* Pointer handlers: camera control and the tap/hold classification.  The    *)
(* operator holds one button at a time.  elapsed is Date.now() minus         *)
(* rightClickRef.startTime, followed through the instants the handlers tell  *)
(* apart.  The host delivers the contextmenu event of a secondary-button     *)
(* gesture either on the press (button still held) or right after the        *)
(* mouseup; a trackpad tap delivers it with no press at all.                 *)

Buttons == {0, 1, 2}

Stale == TRACKPAD_STALE + 1

Instants == {0, HOLD_THRESHOLD - 1, HOLD_THRESHOLD, HOLD_THRESHOLD + 1,
             TRACKPAD_STALE, Stale}

NoGesture == [phase |-> "idle", kind |-> "none", order |-> "none", held |-> 0,
              moved |-> FALSE,
              cameraEntered |-> FALSE, cameraMoved |-> FALSE, menus |-> 0,
              mode |-> "view", hit |-> None, target |-> None]

\* what kind of gesture a press with this button and modifier begins
gestureKind(button, altKey) ==
    CASE button = 1 -> "middle"
      [] button = 0 /\ altKey -> "option"
      [] button = 2 -> "secondary"
      [] OTHER -> "primary"

\* enterCameraMode variant that records the source but stays inactive
enterCameraModeInactive(source) == [active |-> FALSE, source |-> source]

\* enterCameraMode
enterCameraMode(source) == [active |-> TRUE, source |-> source]

\* exitCameraMode
exitCameraMode == [active |-> FALSE, source |-> "null"]

\* handleMouseDown
handleMouseDown(button, altKey) ==
    IF button = 1
    THEN /\ cameraControlRef' = enterCameraMode("middle")
         /\ UNCHANGED <<rightClickRef, elapsed>>
    ELSE IF button = 0 /\ altKey
    THEN /\ cameraControlRef' = enterCameraMode("option")
         /\ UNCHANGED <<rightClickRef, elapsed>>
    ELSE IF button = 2
    THEN /\ rightClickRef' = [isCameraMode |-> FALSE, pendingMenu |-> FALSE]
         /\ elapsed' = 0
         /\ UNCHANGED cameraControlRef
    ELSE UNCHANGED <<cameraControlRef, rightClickRef, elapsed>>

HandleMouseDown ==
    /\ buttons = {} /\ hostPending = "none"
    /\ \E button \in Buttons, altKey \in BOOLEAN :
          /\ handleMouseDown(button, altKey)
          /\ buttons' = {button}
          /\ IF button = 2
             THEN hostPending' \in {"contextmenu", "afterRelease"}
             ELSE hostPending' = "none"
          /\ gesture' = [NoGesture EXCEPT !.phase = "down",
                                          !.kind = gestureKind(button, altKey),
                                          !.order = IF hostPending' = "contextmenu"
                                                    THEN "onPress"
                                                    ELSE IF hostPending' = "afterRelease"
                                                    THEN "afterRelease" ELSE "none",
                                          !.cameraEntered = cameraControlRef'.active,
                                          !.mode = activeMode]
    /\ UNCHANGED <<uiVars, terrainVars>>
    /\ Quiet

\* handleMouseMove: the pointer moved to a new position.  On entering camera mode
\* lastX, lastY become the position of this event, so the camera moves only when
\* camera control was active before the event.
handleMouseMove ==
    IF cameraControlRef.source = "option" /\ 0 \notin buttons
    THEN /\ cameraControlRef' = exitCameraMode
         /\ UNCHANGED rightClickRef
         /\ UNCHANGED gesture
    ELSE LET enter == /\ 2 \in buttons
                      /\ ~cameraControlRef.active
                      /\ elapsed > HOLD_THRESHOLD
         IN  /\ IF enter
                THEN /\ rightClickRef' = [rightClickRef EXCEPT !.isCameraMode = TRUE]
                     /\ cameraControlRef' = enterCameraMode("right")
                ELSE UNCHANGED <<rightClickRef, cameraControlRef>>
             /\ gesture' =
                   IF gesture.phase = "down"
                   THEN [gesture EXCEPT !.moved = TRUE,
                                        !.cameraEntered = @ \/ enter,
                                        !.cameraMoved = @ \/ cameraControlRef.active]
                   ELSE gesture

HandleMouseMove ==
    /\ hostPending # "contextmenu"
    /\ handleMouseMove
    /\ UNCHANGED <<elapsed, buttons, hostPending>>
    /\ UNCHANGED <<uiVars, terrainVars>>
    /\ Quiet

\* the gesture observation after a call of showContextMenuAt with this pick:
\* one more menu, the index the pick returned and the element of the collection
\* at that index when no other element of the collection equals it
afterMenuCall(g, picked) ==
    LET featureIdx == pickFeatureAt(picked)
    IN  IF IsDrawing(activeMode) THEN g
        ELSE [g EXCEPT !.menus = @ + 1, !.hit = featureIdx,
                       !.target = IF /\ featureIdx # None
                                     /\ featureIdx[1] < Len(geoJson)
                                     /\ \A j \in 1..Len(geoJson) :
                                            geoJson[j] = geoJson[featureIdx[1] + 1]
                                                => j = featureIdx[1] + 1
                                  THEN Some(geoJson[featureIdx[1] + 1]) ELSE None]

\* handleMouseUp
handleMouseUp(button, picked, lngLat) ==
    IF button = 1 /\ cameraControlRef.source = "middle"
    THEN /\ cameraControlRef' = exitCameraMode
         /\ UNCHANGED <<rightClickRef, uiVars, terrainVars>>
         /\ gesture' = [gesture EXCEPT !.phase = "done"]
    ELSE IF button = 0 /\ cameraControlRef.source = "option"
    THEN /\ cameraControlRef' = exitCameraMode
         /\ UNCHANGED <<rightClickRef, uiVars, terrainVars>>
         /\ gesture' = [gesture EXCEPT !.phase = "done"]
    ELSE IF button = 2
    THEN LET wasCameraMode == rightClickRef.isCameraMode
                                 \/ cameraControlRef.source = "right"
             shows == rightClickRef.pendingMenu /\ ~wasCameraMode
             released == [gesture EXCEPT
                             !.phase = IF hostPending = "afterRelease"
                                       THEN "released" ELSE "done",
                             !.held = elapsed]
         IN  /\ cameraControlRef' = IF cameraControlRef.source = "right"
                                    THEN exitCameraMode ELSE cameraControlRef
             /\ IF shows
                THEN /\ showContextMenuAt(picked, lngLat)
                     /\ gesture' = afterMenuCall(released, picked)
                ELSE /\ UNCHANGED <<uiVars, terrainVars>>
                     /\ gesture' = released
             /\ rightClickRef' = [isCameraMode |-> FALSE, pendingMenu |-> FALSE]
    ELSE /\ UNCHANGED <<cameraControlRef, rightClickRef, uiVars, terrainVars>>
         /\ gesture' = [gesture EXCEPT !.phase = "done"]

HandleMouseUp ==
    /\ hostPending # "contextmenu"
    /\ \E button \in buttons, picked \in PickResults, lngLat \in ClickLngLats :
          /\ handleMouseUp(button, picked, lngLat)
          /\ buttons' = buttons \ {button}
          /\ hostPending' = IF button = 2 /\ hostPending = "afterRelease"
                            THEN "contextmenu" ELSE hostPending
    /\ UNCHANGED elapsed
    /\ Quiet

\* handleContextMenu variant that takes every press-release pair for a hold
holdSuppressesMenuAnyDelay(delay, wasCameraMode) ==
    delay <= TRACKPAD_STALE

\* handleContextMenu: the test that suppresses the menu after a hold
holdSuppressesMenu(delay, wasCameraMode) ==
    LET isTrackpadTap == delay > TRACKPAD_STALE
    IN  ~isTrackpadTap /\ (delay > HOLD_THRESHOLD \/ wasCameraMode)

\* handleContextMenu
handleContextMenu(picked, lngLat) ==
    IF 2 \in buttons
    THEN /\ rightClickRef' = [rightClickRef EXCEPT !.pendingMenu = TRUE]
         /\ UNCHANGED <<cameraControlRef, uiVars, terrainVars, gesture>>
    ELSE LET wasCameraMode == rightClickRef.isCameraMode
                                 \/ cameraControlRef.source = "right"
             inGesture == gesture.phase = "released"
             g == IF inGesture THEN [gesture EXCEPT !.phase = "done"]
                  ELSE [NoGesture EXCEPT !.phase = "done", !.kind = "trackpad",
                                         !.held = elapsed, !.mode = activeMode]
         IN  IF holdSuppressesMenu(elapsed, wasCameraMode)
             THEN /\ rightClickRef' = [rightClickRef EXCEPT !.isCameraMode = FALSE]
                  /\ cameraControlRef' = exitCameraMode
                  /\ UNCHANGED <<uiVars, terrainVars>>
                  /\ gesture' = g
             ELSE /\ rightClickRef' = [rightClickRef EXCEPT !.isCameraMode = FALSE]
                  /\ showContextMenuAt(picked, lngLat)
                  /\ gesture' = afterMenuCall(g, picked)
                  /\ UNCHANGED cameraControlRef

\* the contextmenu event of a secondary-button gesture, or of a trackpad tap
HandleContextMenu ==
    /\ \/ hostPending = "contextmenu"
       \/ hostPending = "none" /\ buttons = {}
    /\ \E picked \in PickResults, lngLat \in ClickLngLats :
          handleContextMenu(picked, lngLat)
    /\ hostPending' = "none"
    /\ UNCHANGED <<elapsed, buttons>>
    /\ Quiet

\* handleMouseLeave: the pointer leaves the map; a button still held is released
\* outside, where the map hears neither the mouseup nor the contextmenu
HandleMouseLeave ==
    /\ hostPending # "contextmenu"
    /\ rightClickRef' = [isCameraMode |-> FALSE, pendingMenu |-> FALSE]
    /\ cameraControlRef' = exitCameraMode
    /\ buttons' = {}
    /\ hostPending' = "none"
    /\ gesture' = IF gesture.phase = "down"
                  THEN [gesture EXCEPT !.phase = "left"] ELSE gesture
    /\ UNCHANGED elapsed
    /\ UNCHANGED <<uiVars, terrainVars>>
    /\ Quiet

\* time passes: Date.now() reaches a later instant
Tick ==
    /\ hostPending # "contextmenu"
    /\ \E t \in Instants : t > elapsed /\ elapsed' = t
    /\ UNCHANGED <<cameraControlRef, rightClickRef, buttons, hostPending, gesture>>
    /\ UNCHANGED <<uiVars, terrainVars>>
    /\ UNCHANGED event

-----------------------------------------------------------------------------
(* Initial state and the specifications *)

\* the state after construction, but for the collection
InitAround ==
    /\ activeMode = "view"
    /\ selectedFeatureIndexes = <<>>
    /\ missionMenu = [visible |-> FALSE, lngLat |-> None, featureIndex |-> None]
    /\ showMissionFlyout = FALSE
    /\ showHelpOverlay = FALSE
    /\ drawJustFinishedRef = FALSE
    /\ terrainEnabled = FALSE
    /\ mapTerrain = FALSE
    /\ elevatedGeoJson = None
    /\ groundRoutePathsCache = <<>>
    /\ lastGeometryHashRef = None
    /\ terrainSamplingInProgressRef = FALSE
    /\ pass = IdlePass
    /\ terrainCache = EmptyCache
    /\ cameraControlRef = [active |-> FALSE, source |-> "null"]
    /\ rightClickRef = [isCameraMode |-> FALSE, pendingMenu |-> FALSE]
    /\ elapsed = Stale
    /\ buttons = {}
    /\ hostPending = "none"
    /\ gesture = NoGesture
    /\ event = QuietEvent

Init == geoJson = <<>> /\ InitAround

\* The interaction state machine in 2D: the handlers of the map surface, the
\* menus, the flyout and the edit collaborator, with the terrain toggle left off.
\* Property edits, which touch no mode, selection or geometry, are part of
\* SpecTerrain, where the elevated view has to follow them.
Next ==
    \/ HandleDblClick
    \/ HandleClick
    \/ HandleKeyDown
    \/ SecondaryTap
    \/ OnEditAddFeature
    \/ OnEditTentative
    \/ OnEditModify
    \/ FeatureMenuEdit
    \/ FeatureMenuProperties
    \/ FeatureMenuDelete
    \/ MenuCopyCoordinates
    \/ AddMenuChoose
    \/ FlyoutRowClick
    \/ FlyoutDelete
    \/ ToggleFlyout
    \/ ToggleHelp

Spec == Init /\ [][Next]_vars

\* Editing with the terrain toggle and the asynchronous sampling passes, for the
\* element types of TerrainKeys; the flyout selects and deletes.  The runs are
\* shorter than maxAge, so no cache entry expires (SpecSampler lets them age).
TerrainKeys == {"searchPoint", "nfz"}

NextTerrain ==
    \/ ToggleTerrain
    \/ SamplingStep
    \/ SecondaryTap
    \/ AddMenuChooseFrom(TerrainKeys, MaxTerrainFeatures)
    \/ OnEditAddFeatureUpTo(MaxTerrainFeatures)
    \/ OnEditTentative
    \/ OnEditModify
    \/ FlyoutRowClick
    \/ FlyoutDelete
    \/ UpdateFeatureProperty

SpecTerrain == Init /\ [][NextTerrain]_vars

\* The sampler and its cache over collections of ground routes that grow and
\* shrink through the context menus, with the cache entries ageing.
SamplerKeys == {"groundRoute"}

NextSampler ==
    \/ ToggleTerrain
    \/ SamplingStep
    \/ CacheExpire
    \/ SecondaryTap
    \/ AddMenuChooseFrom(SamplerKeys, MaxSamplerFeatures)
    \/ OnEditAddFeatureUpTo(MaxSamplerFeatures)
    \/ FeatureMenuDelete

SpecSampler == Init /\ [][NextSampler]_vars

\* The sampler and the extrusion as functions of the collection: the collection
\* is drawn from a bounded set of inputs, the terrain toggle and the deletion of
\* an element make the sampler run over it, and every state is rendered.
\* Outline rings come explicitly closed and implicitly closed, with 2 to 4
\* distinct vertices; altitude properties come absent, 0 and positive; two of the
\* points have JSON of the same djb2 digest; one route ends where the terrain
\* query throws.
LoadedZones ==
    LET rings == {<<<<0, 0>>, <<15, 0>>, <<15, 15>>, <<0, 0>>>>,
                  <<<<0, 0>>, <<15, 0>>, <<15, 15>>>>,
                  <<<<0, 0>>, <<15, 0>>, <<15, 15>>, <<0, 15>>, <<0, 0>>>>,
                  <<<<0, 0>>, <<15, 0>>, <<15, 15>>, <<0, 15>>>>,
                  <<<<0, 0>>, <<15, 0>>>>}
        typed == {<<"nfz", q>> : q \in {EmptyProps, [floor |-> 0, ceiling |-> 0],
                                         [floor |-> 50, ceiling |-> 200]}}
                 \cup {<<T, q>> : T \in {"geofence", "searchZone"},
                                  q \in {EmptyProps, [altitude |-> 0], [altitude |-> 120]}}
    IN  {[geomType |-> "Polygon", coordinates |-> <<ring>>,
          properties |-> Spread([featureType |-> t[1]], t[2])] :
            t \in typed, ring \in rings}

LoadedPoints ==
    {[geomType |-> "Point", coordinates |-> c, properties |-> [featureType |-> "searchPoint"]] :
        c \in {<<183, 10>>, <<1335, 1952>>}}

LoadedRoutes ==
    {[geomType |-> "LineString", coordinates |-> <<<<0, 0>>, <<15, 15>>>>,
      properties |-> [featureType |-> "airRoute"]],
     [geomType |-> "LineString", coordinates |-> <<<<0, 0>>, <<15, 0>>>>,
      properties |-> [featureType |-> "groundRoute"]],
     [geomType |-> "LineString", coordinates |-> <<<<0, 0>>, <<15, 0>>, <<45, 45>>>>,
      properties |-> [featureType |-> "groundRoute"]]}

InitLoaded ==
    /\ \/ \E z \in LoadedZones : geoJson = <<z>>
       \/ \E p \in LoadedPoints, z \in LoadedZones : geoJson = <<p, z>>
       \/ \E r \in LoadedRoutes, z \in LoadedZones : geoJson = <<r, z>>
       \/ \E p \in LoadedPoints, r \in LoadedRoutes : geoJson = <<p, r>>
       \/ \E p \in LoadedPoints, q \in LoadedPoints : geoJson = <<p, q>>
       \/ \E r \in LoadedRoutes, q \in LoadedRoutes : geoJson = <<r, q>>
       \/ \E p \in LoadedPoints, r \in LoadedRoutes, q \in LoadedPoints :
             geoJson = <<p, r, q>>
    /\ InitAround

NextLoaded ==
    \/ ToggleTerrain
    \/ SamplingStep
    \/ HandleClick
    \/ HandleKeyDown

SpecLoaded == InitLoaded /\ [][NextLoaded]_vars

\* The same over collections that hold malformed geometry next to well-formed
\* elements: ground routes of no vertex and of one vertex, zoned elements whose
\* outline is missing, has no vertex or has one vertex.
MalformedRoutes ==
    {[geomType |-> "LineString", coordinates |-> c,
      properties |-> [featureType |-> "groundRoute"]] : c \in {<<>>, <<<<15, 15>>>>}}

MalformedZones ==
    {[geomType |-> "Polygon", coordinates |-> c,
      properties |-> [featureType |-> t]] :
        t \in ZonedTypes, c \in {<<>>, <<<<>>>>, <<<<<<15, 15>>>>>>}}

WellFormedRoutes ==
    {r \in LoadedRoutes : r.properties.featureType = "groundRoute"}

WellFormedZones ==
    {z \in LoadedZones : z.properties = [featureType |-> z.properties.featureType]
                          /\ Len(z.coordinates[1]) = 4
                          /\ isClosed(z.coordinates[1])}

InitMalformed ==
    /\ \/ \E m \in MalformedRoutes, r \in WellFormedRoutes :
             geoJson = <<m, r>> \/ geoJson = <<r, m>>
       \/ \E m \in MalformedZones, z \in WellFormedZones :
             geoJson = <<m, z>> \/ geoJson = <<z, m>>
       \/ \E p \in LoadedPoints, m \in MalformedRoutes, n \in MalformedZones,
             r \in WellFormedRoutes :
             /\ p.coordinates = <<183, 10>>
             /\ n.properties.featureType = "nfz"
             /\ Len(r.coordinates) = 2
             /\ geoJson = <<p, m, n, r>>
    /\ InitAround

SpecMalformed == InitMalformed /\ [][NextLoaded]_vars

\* The same over collections of more elements than one batch holds: search
\* points of pairwise different positions.  A collection of one of the lengths
\* of BatchInputLengths loses an element to the Delete key, which makes the
\* sampler run over the rest in two and in three batches.
BatchInputLengths == {7, 12}

InitBatches ==
    /\ \E n \in BatchInputLengths :
          geoJson = [k \in 1..n |->
                        [geomType |-> "Point", coordinates |-> <<15 * k, 15>>,
                         properties |-> [featureType |-> "searchPoint"]]]
    /\ InitAround

NextBatches ==
    \/ ToggleTerrain
    \/ SamplingStep
    \/ HandleClick
    \/ Len(geoJson) \in BatchInputLengths /\ HandleKeyDown

SpecBatches == InitBatches /\ [][NextBatches]_vars

\* The pointer gestures, with the handlers that bring the machine into each mode.
\* Keyboard and menu input arrives between gestures.
BetweenGestures == buttons = {} /\ hostPending = "none"

NextGesture ==
    \/ HandleMouseDown
    \/ HandleMouseMove
    \/ HandleMouseUp
    \/ HandleContextMenu
    \/ HandleMouseLeave
    \/ Tick
    \/ BetweenGestures /\ AddMenuChoose
    \/ BetweenGestures /\ HandleDblClick
    \/ BetweenGestures /\ HandleKeyDown

SpecGesture == Init /\ [][NextGesture]_vars

\* The feature menu from the gesture that opens it to its Delete item, over
\* collections of a search point and a drawn ground route, with the keyboard.
MenuTargetKeys == {"searchPoint", "groundRoute"}

NextMenu ==
    \/ HandleMouseDown
    \/ HandleMouseUp
    \/ HandleContextMenu
    \/ BetweenGestures /\ AddMenuChooseFrom(MenuTargetKeys, MaxFeatures)
    \/ BetweenGestures /\ OnEditAddFeature
    \/ BetweenGestures /\ HandleKeyDown
    \/ BetweenGestures /\ FeatureMenuDelete

SpecMenu == Init /\ [][NextMenu]_vars

\* Collections that hold one element without geometry among search points: the
\* sampling passes run over an element whose coordinates are undefined.
BareInputLengths == {2, 3}

InitBare ==
    /\ \E n \in BareInputLengths : \E bare \in 1..n :
          geoJson = [k \in 1..n |->
                        IF k = bare
                        THEN [geomType |-> "none", coordinates |-> <<>>,
                              properties |-> [featureType |-> "searchPoint"]]
                        ELSE [geomType |-> "Point", coordinates |-> <<15 * k, 15>>,
                              properties |-> [featureType |-> "searchPoint"]]]
    /\ InitAround

NextBare ==
    \/ ToggleTerrain
    \/ SamplingStep
    \/ HandleClick
    \/ HandleKeyDown

SpecBare == InitBare /\ [][NextBare]_vars

-----------------------------------------------------------------------------
(* Properties *)

SameFeature(f, g) ==
    /\ f.geomType = g.geomType
    /\ f.coordinates = g.coordinates
    /\ f.properties = g.properties

\* the default altitude properties the specification lists per type
ListedDefaults(T) ==
    CASE T = "geofence" -> [featureType |-> T, altitude |-> 150]
      [] T = "nfz" -> [featureType |-> T, floor |-> 0, ceiling |-> 400]
      [] T = "searchZone" -> [featureType |-> T, altitude |-> 100]
      [] T = "airRoute" -> [featureType |-> T, altitude |-> 50]
      [] OTHER -> [featureType |-> T]

\* C1: when the edit collaborator reports addFeature in draw mode T, the
\* collection gains exactly one element, appended at the last index, whose
\* featureType is T and whose properties are the defaults of T; all earlier
\* elements keep their positions, the selection becomes that last index and the
\* mode becomes view.
C1_CommitAppendsOne ==
    [][event'.op = "addFeature" =>
          /\ activeMode' = "view"
          /\ Len(geoJson') = Len(geoJson) + 1
          /\ selectedFeatureIndexes' = <<Len(geoJson)>>
          /\ geoJson'[Len(geoJson')].properties = ListedDefaults(activeMode)
          /\ \A i \in 1..Len(geoJson) : SameFeature(geoJson'[i], geoJson[i])]_vars

\* the 0-based positions a removal of drop leaves in place
Kept(old, drop) == {i \in 0..(Len(old) - 1) : i \notin drop}

\* new is old without the positions in drop, the rest in its original order
IsRemainder(new, old, drop) ==
    /\ Len(new) = Cardinality(Kept(old, drop))
    /\ \A i \in Kept(old, drop) :
          SameFeature(new[Cardinality({j \in Kept(old, drop) : j <= i})], old[i + 1])

\* C2: in any mode, a Delete or Backspace key-down with a non-empty selection
\* removes exactly the selected elements (the others stay, in their original
\* relative order), empties the selection and sets the mode to view.
C2_DeleteRemovesSelection ==
    [][(event'.op = "Delete" /\ Len(selectedFeatureIndexes) > 0) =>
          /\ activeMode' = "view"
          /\ selectedFeatureIndexes' = <<>>
          /\ IsRemainder(geoJson', geoJson, Range(selectedFeatureIndexes))]_vars

\* Delete was pressed in modify mode with one of two elements selected: one
\* element is left, nothing is selected and the mode is view
C2_Witness ==
    /\ event.op = "Delete" /\ "selected" \in event.found /\ event.mode = "modify"
    /\ Len(geoJson) = 1
    /\ selectedFeatureIndexes = <<>>
    /\ activeMode = "view"

RECURSIVE is2D(_, _)
is2D(coords, depth) ==
    IF depth = 0 THEN Len(coords) = 2
    ELSE \A i \in 1..Len(coords) : is2D(coords[i], depth - 1)

\* C3: strip-on-write: in every reachable state every coordinate of every stored
\* mission element has exactly two components, with terrain on or off, also
\* after edits of the elevation-augmented view.
C3_StoredCoordinatesAre2D ==
    \A i \in 1..Len(geoJson) : is2D(geoJson[i].coordinates, Depth(geoJson[i].geomType))

\* a vertex of a polygon was moved while the edit collaborator held the elevated
\* view, and the polygon is stored
C3_Witness ==
    /\ event.op = "movePosition" /\ "elevated" \in event.found
    /\ terrainEnabled
    /\ Len(geoJson) = 1 /\ geoJson[1].geomType = "Polygon"

\* the step that completes a gesture: the release or, when the host delivers
\* the contextmenu after the release, that delivery
Completes == gesture.phase # "done" /\ gesture'.phase = "done"

\* C4: in view or modify mode a secondary-button press released less than
\* HOLD_THRESHOLD ms later with no pointer movement in between opens a context
\* menu exactly once (the feature menu if the pick hits an element, the add
\* menu otherwise) and never enters camera control, for either order of the
\* contextmenu and mouseup events.
C4_TapOpensMenuOnce ==
    [][(/\ Completes
        /\ gesture'.kind = "secondary"
        /\ gesture'.held < HOLD_THRESHOLD
        /\ ~gesture'.moved
        /\ gesture'.mode \in {"view", "modify"}) =>
          /\ gesture'.menus = 1
          /\ ~gesture'.cameraEntered
          /\ ~cameraControlRef'.active
          /\ missionMenu'.visible
          /\ missionMenu'.featureIndex = gesture'.hit]_vars

\* a tap in modify mode on an element, its contextmenu delivered after the
\* release, has opened the feature menu
C4_Witness ==
    /\ gesture.phase = "done" /\ gesture.kind = "secondary"
    /\ gesture.order = "afterRelease"
    /\ gesture.held < HOLD_THRESHOLD /\ ~gesture.moved
    /\ gesture.mode = "modify"
    /\ gesture.menus = 1
    /\ missionMenu.visible /\ missionMenu.featureIndex # None

\* C5: a secondary-button press released more than HOLD_THRESHOLD ms later is a
\* hold: camera control is entered and no context menu opens on or after the
\* release, for every duration above the threshold, with or without pointer
\* movement, for either order of the contextmenu and mouseup events.
C5_HoldEntersCameraNoMenu ==
    (/\ gesture.phase = "done"
     /\ gesture.kind = "secondary"
     /\ gesture.held > HOLD_THRESHOLD) =>
        /\ gesture.cameraEntered
        /\ gesture.menus = 0

\* C6: no secondary-button gesture both moves the camera through camera control
\* and opens a context menu.
C6_CameraOrMenu ==
    gesture.kind = "secondary" => ~(gesture.cameraMoved /\ gesture.menus > 0)

\* C7: in every mode, pressing the middle button, or the primary button with
\* Alt/Option held, makes camera control active on that press without changing
\* mode, selection or collection; releasing that button makes it inactive.
C7_CameraButtons ==
    [][/\ (/\ gesture.phase # "down" /\ gesture'.phase = "down"
           /\ gesture'.kind \in {"middle", "option"}) =>
             /\ cameraControlRef'.active
             /\ UNCHANGED <<activeMode, selectedFeatureIndexes, geoJson>>
       /\ (/\ gesture.phase = "down" /\ gesture'.phase = "done"
           /\ gesture.kind \in {"middle", "option"}) =>
             ~cameraControlRef'.active]_vars

\* an Option-drag in a draw mode has moved the camera and has been released
C7_Witness ==
    /\ gesture.phase = "done" /\ gesture.kind = "option"
    /\ gesture.cameraMoved
    /\ IsDrawing(gesture.mode) /\ activeMode = gesture.mode
    /\ ~cameraControlRef.active

\* C8: an Escape key-down with a context menu open closes the menu and leaves
\* mode and selection unchanged; with no menu open, in a non-view mode, it sets
\* the mode to view and clears the selection; it never changes the collection.
C8_EscapeMenuFirst ==
    [][event'.op = "Escape" =>
          /\ UNCHANGED geoJson
          /\ missionMenu.visible =>
                /\ ~missionMenu'.visible
                /\ UNCHANGED <<activeMode, selectedFeatureIndexes>>
          /\ (~missionMenu.visible /\ activeMode # "view") =>
                /\ activeMode' = "view"
                /\ selectedFeatureIndexes' = <<>>]_vars

\* C8, as the code has it: with the help overlay open an Escape key-down only
\* closes the overlay; otherwise it closes any open menu and, in the same key
\* press, sets a non-view mode to view and clears the selection (in view mode
\* mode and selection stay); it never changes the collection.
C8_EscapeClosesMenuAndExits ==
    [][event'.op = "Escape" =>
          /\ UNCHANGED geoJson
          /\ IF showHelpOverlay
             THEN /\ ~showHelpOverlay'
                  /\ UNCHANGED <<missionMenu, activeMode, selectedFeatureIndexes>>
             ELSE /\ ~missionMenu'.visible
                  /\ activeMode' = "view"
                  /\ selectedFeatureIndexes' =
                        IF activeMode # "view" THEN <<>> ELSE selectedFeatureIndexes]_vars

\* Escape was pressed in modify mode with a menu open and the help overlay
\* closed: the menu is closed, the mode is view and nothing is selected
C8_Witness ==
    /\ event.op = "Escape" /\ event.found = {"menu"} /\ event.mode = "modify"
    /\ ~missionMenu.visible
    /\ activeMode = "view"
    /\ selectedFeatureIndexes = <<>>

\* C9: from modify mode, each of Escape, Enter and a double-click whose pick
\* hits nothing leads to mode view with the selection cleared.
C9_ModifyExits ==
    [][(/\ activeMode = "modify"
        /\ \/ event'.op \in {"Escape", "Enter"}
           \/ event'.op = "dblclick" /\ event'.hit = None) =>
          /\ activeMode' = "view"
          /\ selectedFeatureIndexes' = <<>>]_vars

\* C9, as the code has it: from modify mode Enter leads to view with the
\* selection cleared, and so does Escape unless the help overlay is open (then
\* mode and selection stay); a double-click whose pick hits nothing leaves
\* mode and selection as they are.
C9_ModifyExitsByKey ==
    [][activeMode = "modify" =>
          /\ (event'.op = "Enter" \/ (event'.op = "Escape" /\ ~showHelpOverlay)) =>
                /\ activeMode' = "view"
                /\ selectedFeatureIndexes' = <<>>
          /\ ((event'.op = "Escape" /\ showHelpOverlay)
              \/ (event'.op = "dblclick" /\ event'.hit = None)) =>
                UNCHANGED <<activeMode, selectedFeatureIndexes>>]_vars

\* Enter was pressed in modify mode: the mode is view and nothing is selected
C9_Witness ==
    /\ event.op = "Enter" /\ event.mode = "modify"
    /\ activeMode = "view"
    /\ selectedFeatureIndexes = <<>>

-----------------------------------------------------------------------------
(* Properties of the double-click, of picking and of the sampling passes *)

\* C11: in view mode a double-click whose pick hits no element opens the
\* add-element menu at the unprojected map coordinate and leaves mode,
\* selection and collection unchanged.
C11_DblClickEmptyOpensMenu ==
    [][(event'.op = "dblclick" /\ activeMode = "view" /\ event'.hit = None) =>
          /\ missionMenu'.visible
          /\ missionMenu'.featureIndex = None
          /\ missionMenu'.lngLat # None
          /\ UNCHANGED <<activeMode, selectedFeatureIndexes, geoJson>>]_vars

\* C12: in any draw mode a double-click hands the edit collaborator a synthetic
\* double-click followed by an Enter key-up, opens no menu and makes no pick or
\* selection; the handler itself changes neither mode, selection nor
\* collection, which change only when the collaborator commits.
C12_DblClickFinishesDrawing ==
    [][(event'.op = "dblclick" /\ IsDrawing(activeMode)) =>
          /\ event'.forwarded = <<"dblclick", "keyup Enter">>
          /\ event'.hit = None /\ event'.found = {}
          /\ UNCHANGED <<missionMenu, activeMode, selectedFeatureIndexes, geoJson>>]_vars

\* a double-click in a draw mode, with an element already on the map, has
\* forwarded the finish signal; the mode is still the draw mode, nothing is
\* selected and no menu is open
C12_Witness ==
    /\ event.op = "dblclick" /\ IsDrawing(event.mode)
    /\ event.forwarded = <<"dblclick", "keyup Enter">>
    /\ activeMode = event.mode
    /\ Len(geoJson) = 1
    /\ selectedFeatureIndexes = <<>>
    /\ ~missionMenu.visible

\* C13: with the drawing-just-finished flag set, the next double-click handled
\* in view or modify mode is suppressed (mode, selection and menu stay as they
\* are) and clears the flag.
C13_DblClickSuppressedAfterCommit ==
    [][(event'.op = "dblclick" /\ ~IsDrawing(activeMode) /\ drawJustFinishedRef) =>
          /\ ~drawJustFinishedRef'
          /\ UNCHANGED <<activeMode, selectedFeatureIndexes, missionMenu>>]_vars

\* the type of the stored element a pick of the editable layer points at
PickedType(picked) == geoJson[picked.index + 1].properties.featureType

\* C14: a pick on the editable-layer fill of a no-fly zone, a geofence or a
\* search zone is no hit; a pick on a derived primitive returns the index of
\* its owner; point and route elements are hit on the editable layer.
C14_ZoneFillNotPickable ==
    \A picked \in PickResults :
        /\ picked.kind = "object" => pickFeatureAt(picked) = Some(picked.index)
        /\ (picked.kind = "editable" /\ picked.index < Len(geoJson)) =>
              pickFeatureAt(picked) =
                 IF PickedType(picked) \in {"nfz", "geofence", "searchZone"}
                 THEN None ELSE Some(picked.index)

\* C14, as the code has it: only the editable-layer fill of a geofence is no
\* hit; the fill of a no-fly zone or of a search zone returns the index of the
\* element, like point and route elements; a pick on a derived primitive
\* returns the featureIndex it carries.
C14_GeofenceFillNotPickable ==
    \A picked \in PickResults :
        /\ picked.kind = "object" => pickFeatureAt(picked) = Some(picked.index)
        /\ (picked.kind = "editable" /\ picked.index < Len(geoJson)) =>
              pickFeatureAt(picked) =
                 IF PickedType(picked) = "geofence" THEN None ELSE Some(picked.index)

\* a double-click in view mode on the fill of a no-fly zone, with a geofence
\* also on the map, has selected the no-fly zone and entered modify mode
C14_Witness ==
    /\ event.op = "dblclick" /\ event.mode = "view" /\ event.found = {"editable"}
    /\ event.hit # None
    /\ Len(geoJson) = 2
    /\ geoJson[event.hit[1] + 1].properties.featureType = "nfz"
    /\ \E i \in 1..Len(geoJson) : geoJson[i].properties.featureType = "geofence"
    /\ selectedFeatureIndexes = event.hit
    /\ activeMode = "modify"

\* C15: when the pick query throws, the handler changes neither mode, selection
\* nor collection, and a secondary-button tap opens the add-element menu.
C15_FailingPickChangesNothing ==
    [][("throws" \in event'.found) =>
          /\ UNCHANGED <<activeMode, selectedFeatureIndexes, geoJson>>
          /\ event'.op = "tap" =>
                missionMenu'.visible /\ missionMenu'.featureIndex = None]_vars

\* C15, as the code has it: a throwing pick is treated as a pick that hits
\* nothing and never changes the collection.  A secondary-button tap opens the
\* add-element menu, in view mode with mode and selection unchanged, in modify
\* mode with the mode set to view and the selection cleared; a click in view
\* mode clears the selection; a double-click changes nothing.
C15_FailingPickIsNoHit ==
    [][("throws" \in event'.found) =>
          /\ UNCHANGED geoJson
          /\ event'.op = "tap" =>
                /\ missionMenu'.visible /\ missionMenu'.featureIndex = None
                /\ activeMode' = "view"
                /\ selectedFeatureIndexes' =
                      IF activeMode = "modify" THEN <<>> ELSE selectedFeatureIndexes
          /\ event'.op = "click" =>
                /\ selectedFeatureIndexes' = <<>>
                /\ UNCHANGED <<activeMode, missionMenu>>
          /\ event'.op = "dblclick" =>
                UNCHANGED <<activeMode, selectedFeatureIndexes, missionMenu>>]_vars

\* a secondary-button tap in view mode whose pick threw, with an element
\* selected: the add-element menu is open and the selection is kept
C15_Witness ==
    /\ event.op = "tap" /\ "throws" \in event.found /\ event.mode = "view"
    /\ missionMenu.visible /\ missionMenu.featureIndex = None
    /\ activeMode = "view"
    /\ Len(selectedFeatureIndexes) = 1

\* the step is a resumption of the pass in flight
SamplingResumes ==
    /\ terrainSamplingInProgressRef
    /\ \/ pass'.i # pass.i
       \/ Len(pass'.groundRoutePaths) # Len(pass.groundRoutePaths)
       \/ ~terrainSamplingInProgressRef'

\* C16: a sampling pass over a collection of which every element was sampled by
\* the pass before it, at the same index and with the same coordinates, no
\* longer than maxAge ago, issues no terrain query, neither for the
\* coordinates of an element nor for the dense path of a ground route.
C16_UnchangedElementsNotQueried ==
    [][(SamplingResumes /\ pass.warm = 0..(Len(pass.features) - 1)) =>
          stepQueries = {}]_vars

\* C17: a property edit with terrain enabled and an elevated view present starts
\* no sampling pass, leaves the coordinates of the elevated view unchanged and
\* makes the properties of every element of the elevated view equal to the
\* properties of the stored element at the same index.
C17_PropertyEditMerged ==
    [][(event'.op = "updateFeatureProperty" /\ terrainEnabled /\ elevatedGeoJson # None) =>
          /\ UNCHANGED <<terrainSamplingInProgressRef, pass, terrainCache>>
          /\ elevatedGeoJson' # None
          /\ Len(elevatedGeoJson'[1]) = Len(elevatedGeoJson[1])
          /\ \A i \in 1..Len(elevatedGeoJson[1]) :
                /\ elevatedGeoJson'[1][i].coordinates = elevatedGeoJson[1][i].coordinates
                /\ i <= Len(geoJson')
                /\ elevatedGeoJson'[1][i].properties = geoJson'[i].properties]_vars

\* C18: at most one sampling pass is in flight: the count of passes started and
\* not yet settled never exceeds one, and is one exactly while the in-flight
\* flag is set, also when the geometry changes or terrain is toggled during a
\* pass.
C18_OnePassInFlight ==
    /\ pass.inFlight <= 1
    /\ terrainSamplingInProgressRef <=> pass.inFlight = 1

\* the geometry was changed while a pass was running, and that pass is still
\* the only one in flight
C18_Witness ==
    /\ terrainSamplingInProgressRef
    /\ pass.inFlight = 1
    /\ computeGeometryHash(geoJson) # pass.hash

\* the step settles the pass in flight and publishes its result
PassSettles ==
    /\ terrainSamplingInProgressRef
    /\ lastGeometryHashRef' = Some(pass.hash)
    /\ lastGeometryHashRef # Some(pass.hash)

\* C19: when a pass settles with terrain enabled and the geometry of the
\* collection differs from the geometry the pass sampled, a follow-up pass is
\* started at once, without a further edit.
C19_FollowUpPass ==
    [][(PassSettles /\ terrainEnabled /\ computeGeometryHash(geoJson) # pass.hash) =>
          terrainSamplingInProgressRef']_vars

\* C20: whenever terrain is off and no pass is in flight, the cache is empty
\* and neither an elevated view nor dense route paths are stored, also after a
\* pass that was in flight when terrain was toggled off.
C20_TerrainOffLeavesNothing ==
    (~terrainEnabled /\ ~terrainSamplingInProgressRef) =>
        /\ DOMAIN terrainCache = {}
        /\ elevatedGeoJson = None
        /\ Len(groundRoutePathsCache) = 0

-----------------------------------------------------------------------------
(* Properties of the sampler, of its cache and of the extrusion *)

\* the step calls the sampler while the map has no terrain: the call returns
\* and is published within the step
SampledWithoutTerrain ==
    /\ terrainEnabled' /\ ~mapTerrain
    /\ ~terrainSamplingInProgressRef /\ ~terrainSamplingInProgressRef'
    /\ lastGeometryHashRef' # lastGeometryHashRef
    /\ lastGeometryHashRef' = Some(computeGeometryHash(geoJson'))

\* the 0-based positions of the ground routes of a collection
RoutePositions(features) ==
    {i \in 0..(Len(features) - 1) : features[i + 1].properties.featureType = "groundRoute"}

RECURSIVE Draped(_, _)
Draped(coords, depth) ==
    IF depth = 0 THEN <<coords[1], coords[2], terrainElevation(coords) + 10>>
    ELSE [i \in 1..Len(coords) |-> Draped(coords[i], depth - 1)]

\* the terrain query throws for some coordinate of the array
RECURSIVE QueryThrowsIn(_, _)
QueryThrowsIn(coords, depth) ==
    IF depth = 0 THEN <<coords[1], coords[2]>> \in TerrainThrowsAt
    ELSE \E i \in 1..Len(coords) : QueryThrowsIn(coords[i], depth - 1)

\* the step runs a batch of the pass in flight
BatchRuns == SamplingResumes /\ pass.i < Len(pass.features)

\* the elements the pass has assembled after the step
BatchOutput ==
    IF terrainSamplingInProgressRef' THEN pass'.elevatedFeatures ELSE elevatedGeoJson'[1]

\* the coordinate arrays of the inputs that have the geometry type of a feature
InputCoordinates(feature) ==
    {g.coordinates : g \in CASE feature.geomType = "Point" -> LoadedPoints
                              [] feature.geomType = "LineString" -> LoadedRoutes
                              [] OTHER -> LoadedZones}

\* the result of a cache miss: the element draped, and stored under its key
MissSampledAndStored(i) ==
    LET feature == pass.features[i + 1]
        depth == Depth(feature.geomType)
        key == makeKey(i, feature.coordinates, depth)
    IN  /\ BatchOutput[i + 1].coordinates = Draped(feature.coordinates, depth)
        /\ cacheHit(terrainCache', key)
        /\ terrainCache'[key].coords3D = Draped(feature.coordinates, depth)

\* C22 as claimed: with terrain on the map, a cache miss for element i drapes the
\* element (elevation of the surface + 10, lng and lat unchanged) and stores the
\* result so that a lookup with the same index and coordinates returns it, and
\* no lookup with a different index or with different coordinates finds that entry.
C22_MissStoredByCoordinates ==
    [][(BatchRuns /\ mapTerrain) =>
          \A i \in batchMisses :
             LET feature == pass.features[i + 1]
                 depth == Depth(feature.geomType)
             IN  ~QueryThrowsIn(feature.coordinates, depth) =>
                    /\ MissSampledAndStored(i)
                    /\ \A j \in 0..Len(pass.features), c \in InputCoordinates(feature) :
                          (j # i \/ c # feature.coordinates) =>
                             makeKey(j, c, depth) # makeKey(i, feature.coordinates, depth)]_vars

\* C22: with terrain on the map, a cache miss for element i drapes the element
\* and stores the result so that a lookup with the same index and coordinates
\* returns it, no lookup with a different index finds that entry, and a lookup
\* with the same index and different coordinates finds it exactly when the JSON
\* of the two coordinate arrays has the same 32-bit djb2 digest.
C22_MissStoredByDigest ==
    [][(BatchRuns /\ mapTerrain) =>
          \A i \in batchMisses :
             LET feature == pass.features[i + 1]
                 depth == Depth(feature.geomType)
             IN  ~QueryThrowsIn(feature.coordinates, depth) =>
                    /\ MissSampledAndStored(i)
                    /\ \A j \in 0..Len(pass.features), c \in InputCoordinates(feature) :
                          /\ j # i => makeKey(j, c, depth) # makeKey(i, feature.coordinates, depth)
                          /\ (makeKey(i, c, depth) = makeKey(i, feature.coordinates, depth))
                                <=> (djb2Json(<<0, 5381>>, c, depth)
                                       = djb2Json(<<0, 5381>>, feature.coordinates, depth))]_vars

\* a pass sampled the point at [183, 10] as element 0: the cache holds it, and
\* the key of element 0 at [1335, 1952] finds the same entry
C22_Witness ==
    /\ terrainEnabled /\ mapTerrain /\ ~terrainSamplingInProgressRef
    /\ Len(geoJson) = 1 /\ geoJson[1].geomType = "Point"
    /\ geoJson[1].coordinates = <<183, 10>>
    /\ elevatedGeoJson # None /\ Len(elevatedGeoJson[1]) = 1
    /\ elevatedGeoJson[1][1].coordinates = <<183, 10, 23>>
    /\ cacheHit(terrainCache, makeKey(0, <<183, 10>>, 0))
    /\ cacheHit(terrainCache, makeKey(0, <<1335, 1952>>, 0))

\* coordinates with, on every coordinate, the offset 10 where the terrain query
\* throws and the elevation of the surface plus 10 elsewhere
RECURSIVE DrapedOrOffset(_, _)
DrapedOrOffset(coords, depth) ==
    IF depth = 0
    THEN <<coords[1], coords[2],
           IF <<coords[1], coords[2]>> \in TerrainThrowsAt THEN 10
           ELSE terrainElevation(coords) + 10>>
    ELSE [i \in 1..Len(coords) |-> DrapedOrOffset(coords[i], depth - 1)]

\* the pass in flight runs over an element for one of whose coordinates the
\* terrain query throws
PassMeetsThrow ==
    \E e \in 1..Len(pass.features) :
        QueryThrowsIn(pass.features[e].coordinates, Depth(pass.features[e].geomType))

\* the dense path the step has built, when the step is the turn of a ground route
RouteOutput ==
    IF terrainSamplingInProgressRef'
    THEN pass'.groundRoutePaths[Len(pass'.groundRoutePaths)]
    ELSE groundRoutePathsCache'[Len(groundRoutePathsCache')]

\* C23: in a pass that meets a throwing terrain query, with terrain on the map,
\* every sampled coordinate for which the query throws gets exactly the
\* elevation 10, every other sampled coordinate the surface elevation plus 10,
\* of the elements and of the dense paths alike, and the pass is published with
\* one output element per input element and one path per ground route.
C23_ThrowingQueryIsNotFatal ==
    [][(SamplingResumes /\ mapTerrain /\ PassMeetsThrow) =>
          /\ BatchRuns =>
                \A i \in batchMisses :
                    BatchOutput[i + 1].coordinates =
                        DrapedOrOffset(pass.features[i + 1].coordinates,
                                       Depth(pass.features[i + 1].geomType))
          /\ ~BatchRuns =>
                /\ Len(RouteOutput.densePath) >= Len(RouteOutput.feature.coordinates)
                /\ \A j \in 1..Len(RouteOutput.densePath) :
                      RouteOutput.densePath[j] = DrapedOrOffset(RouteOutput.densePath[j], 0)
          /\ ~terrainSamplingInProgressRef' =>
                /\ elevatedGeoJson' # None
                /\ Len(elevatedGeoJson'[1]) = Len(pass.features)
                /\ Len(groundRoutePathsCache') = Cardinality(RoutePositions(pass.features))]_vars

\* a pass over the route that ends at [45, 45], where the query throws, and a
\* point is published: the vertex at [45, 45] and the last point of the dense
\* path have elevation 10, the vertex at [15, 0] and the point are draped
C23_Witness ==
    /\ terrainEnabled /\ mapTerrain /\ ~terrainSamplingInProgressRef
    /\ elevatedGeoJson # None /\ Len(elevatedGeoJson[1]) = 2 /\ Len(geoJson) = 2
    /\ elevatedGeoJson[1][1].geomType = "LineString"
    /\ elevatedGeoJson[1][1].coordinates = <<<<0, 0, 10>>, <<15, 0, 11>>, <<45, 45, 10>>>>
    /\ elevatedGeoJson[1][2].geomType = "Point"
    /\ Len(elevatedGeoJson[1][2].coordinates) = 3
    /\ elevatedGeoJson[1][2].coordinates[3] > 10
    /\ Len(groundRoutePathsCache) = 1
    /\ LET path == groundRoutePathsCache[1].densePath
       IN  /\ Len(path) > 3
           /\ path[Len(path)] = <<45, 45, 10>>
           /\ path[Len(path) - 1][3] > 10

\* C24: with terrain on the map, the dense path built for a ground route of
\* n >= 2 vertices has n + 15 * (n - 1) points: the n vertices and 15 points
\* strictly inside each of the n - 1 segments.
C24_DensePathLength ==
    [][(SamplingResumes /\ ~BatchRuns /\ mapTerrain
          /\ Len(RouteOutput.feature.coordinates) >= 2) =>
          LET n == Len(RouteOutput.feature.coordinates)
          IN  Len(RouteOutput.densePath) = n + 15 * (n - 1)]_vars

\* the wall quads the extrusion emits for element i of the view, in order
WallsOf(i) == SelectSeq(extrusion.wallSegments, LAMBDA w : w.featureIndex = i)

\* longitude and latitude of a coordinate
LngLat(c) == <<c[1], c[2]>>

\* the number of distinct vertices of an outline ring
DistinctVertices(ring) == Cardinality({LngLat(ring[j]) : j \in 1..Len(ring)})

\* C25: for a zoned element of the view whose outline has k >= 2 distinct
\* vertices v1..vk, explicitly closed or not, the extrusion emits exactly k wall
\* quads, the j-th over the edge from vj to its successor and the last over the
\* closing edge from vk to v1.
C25_OneWallPerEdge ==
    \A i \in zonedFeatureIndexes :
        LET ring == outlineRing(dataWithElevation[i + 1])
            k == DistinctVertices(ring)
            walls == WallsOf(i)
        IN  k >= 2 =>
               /\ Len(walls) = k
               /\ \A j \in 1..k :
                     /\ LngLat(walls[j].polygon[1]) = LngLat(ring[j])
                     /\ LngLat(walls[j].polygon[2]) = LngLat(ring[(j % k) + 1])
                     /\ LngLat(walls[j].polygon[3]) = LngLat(ring[(j % k) + 1])
                     /\ LngLat(walls[j].polygon[4]) = LngLat(ring[j])

\* the elevated view holds a square whose ring repeats its first vertex as the
\* fifth coordinate, and the extrusion has 4 walls for it
C25_Witness ==
    /\ terrainEnabled /\ viewIsElevated
    /\ \E i \in zonedFeatureIndexes :
          /\ Len(outlineRing(dataWithElevation[i + 1])) = 5
          /\ isClosed(outlineRing(dataWithElevation[i + 1]))
          /\ Len(WallsOf(i)) = 4

\* a stored property value when the property is present, the value 0 included,
\* and d only when it is absent
StoredOr(props, name, d) == IF name \in DOMAIN props THEN props[name] ELSE d

\* the elevation of a coordinate of the view
ElevationOf(c) == IF Len(c) > 2 THEN c[3] ELSE 0

\* C26: every wall quad of a zoned element over an edge (p1, p2) has its bottom
\* corners at the elevations of p1 and p2 plus baseOffset and its top corners at
\* the elevations of p2 and p1 plus topOffset, where (baseOffset, topOffset) is
\* (floor, ceiling) for a no-fly zone and (0, altitude) for a geofence and a
\* search zone, each the stored value when the property is present, 0 included,
\* and the default (floor 0, ceiling 400, geofence 150, search zone 100) only
\* when it is absent.
C26_WallCornerElevations ==
    \A i \in zonedFeatureIndexes :
        LET feature == dataWithElevation[i + 1]
            ring == outlineRing(feature)
            props == feature.properties
            type == props.featureType
            base == IF type = "nfz" THEN StoredOr(props, "floor", 0) ELSE 0
            top == IF type = "nfz" THEN StoredOr(props, "ceiling", 400)
                   ELSE StoredOr(props, "altitude", IF type = "geofence" THEN 150 ELSE 100)
            walls == WallsOf(i)
        IN  \A j \in 1..Len(walls) :
                LET p1 == ring[j]
                    p2 == ring[(j % Len(ring)) + 1]
                IN  walls[j].polygon =
                        <<<<p1[1], p1[2], ElevationOf(p1) + base>>,
                          <<p2[1], p2[2], ElevationOf(p2) + base>>,
                          <<p2[1], p2[2], ElevationOf(p2) + top>>,
                          <<p1[1], p1[2], ElevationOf(p1) + top>>>>

\* the number of items of a derived layer tagged with element i
TaggedIn(layer, i) == Cardinality({k \in 1..Len(layer) : layer[k].featureIndex = i})

\* C27: for every zoned element of the view with an outline of at least 2
\* coordinates the extrusion emits exactly one border, whose path is the outline
\* lifted by topOffset, and exactly one ceiling if the element is a no-fly zone or
\* a search zone and none if it is a geofence; it emits no wall, ceiling or
\* border for an element of any other type.
C27_BorderAndCeilingPerType ==
    \A i \in 0..(Len(dataWithElevation) - 1) :
        LET feature == dataWithElevation[i + 1]
            type == feature.properties.featureType
            ring == feature.coordinates[1]
        IN  IF type \in {"geofence", "nfz", "searchZone"}
            THEN Len(ring) >= 2 =>
                    /\ TaggedIn(extrusion.borderData, i) = 1
                    /\ \A k \in 1..Len(extrusion.borderData) :
                          extrusion.borderData[k].featureIndex = i =>
                             extrusion.borderData[k].path =
                                [j \in 1..Len(ring) |->
                                    <<ring[j][1], ring[j][2],
                                      ElevationOf(ring[j]) + topOffset(feature)>>]
                    /\ TaggedIn(extrusion.ceilingData, i) = (IF type = "geofence" THEN 0 ELSE 1)
            ELSE /\ TaggedIn(extrusion.wallSegments, i) = 0
                 /\ TaggedIn(extrusion.borderData, i) = 0
                 /\ TaggedIn(extrusion.ceilingData, i) = 0

\* with terrain on, the view holds an air route and a geofence: the geofence
\* has walls, its one border and no ceiling, the route has none of the three
C27_Witness ==
    /\ terrainEnabled /\ elevatedGeoJson # None
    /\ Len(dataWithElevation) = 2
    /\ dataWithElevation[1].properties.featureType = "airRoute"
    /\ dataWithElevation[2].properties.featureType = "geofence"
    /\ Len(extrusion.borderData) = 1
    /\ extrusion.borderData[1].featureIndex = 1
    /\ Len(extrusion.ceilingData) = 0
    /\ TaggedIn(extrusion.wallSegments, 1) >= 2

\* element i of the collection is the element a primitive built from owner
\* depicts: it exists, and has the type and the longitudes and latitudes of owner
Depicts(i, owner) ==
    /\ i < Len(geoJson)
    /\ geoJson[i + 1].properties.featureType = owner.properties.featureType
    /\ geoJson[i + 1].geomType = owner.geomType
    /\ geoJson[i + 1].coordinates = stripElevation(owner.coordinates, Depth(owner.geomType))

\* C28: every wall, ceiling, border, air-route path and ground-route path
\* carries as featureIndex the position in the collection of the element it
\* was built from, whether terrain is on or off.
C28_PrimitivesTagOwner ==
    /\ \A i \in zonedFeatureIndexes \cup airRouteFeatureIndexes :
          Depicts(i, dataWithElevation[i + 1])
    /\ \A k \in 1..Len(extrusion.wallSegments) :
          extrusion.wallSegments[k].featureIndex \in zonedFeatureIndexes
    /\ \A k \in 1..Len(extrusion.borderData) :
          extrusion.borderData[k].featureIndex \in zonedFeatureIndexes
    /\ \A k \in 1..Len(extrusion.ceilingData) :
          extrusion.ceilingData[k].featureIndex \in zonedFeatureIndexes
    /\ \A item \in airRouteData : item.featureIndex \in airRouteFeatureIndexes
    /\ \A k \in 1..Len(groundRouteData) :
          Depicts(groundRouteData[k].featureIndex, groundRouteData[k].feature)

\* the cache key of element i of the pass in flight
PassKey(i) ==
    makeKey(i, pass.features[i + 1].coordinates, Depth(pass.features[i + 1].geomType))

\* C29: when a batch looks up an entry older than maxAge the lookup finds
\* nothing and removes the entry, and the element is sampled again and stored
\* anew; when it looks up an entry not older than maxAge the element gets the
\* stored 3D coordinates unchanged and the entry stays as it is.
C29_CacheExpiry ==
    [][BatchRuns =>
          \A i \in batchIndexes :
              PassKey(i) \in DOMAIN terrainCache =>
                 IF terrainCache[PassKey(i)].expired
                 THEN /\ ~cacheHit(terrainCache, PassKey(i))
                      /\ PassKey(i) \notin DOMAIN cacheGetAll(terrainCache, {PassKey(i)})
                      /\ i \in stepQueries
                      /\ BatchOutput[i + 1].coordinates =
                            elevateFeature(pass.features[i + 1], mapTerrain).coordinates
                      /\ ~terrainCache'[PassKey(i)].expired
                      /\ terrainCache'[PassKey(i)].coords3D = BatchOutput[i + 1].coordinates
                 ELSE /\ cacheHit(terrainCache, PassKey(i))
                      /\ i \notin stepQueries
                      /\ BatchOutput[i + 1].coordinates = terrainCache[PassKey(i)].coords3D
                      /\ terrainCache'[PassKey(i)] = terrainCache[PassKey(i)]]_vars

\* a pass over one route has run its batch after every entry had expired: the
\* entry of element 0 is new, the entry of the deleted element 1 is still the
\* expired one
C29_Witness ==
    /\ terrainSamplingInProgressRef
    /\ Len(pass.features) = 1 /\ pass.i = 1
    /\ cacheHit(terrainCache, PassKey(0))
    /\ \E k \in DOMAIN terrainCache : terrainCache[k].expired

\* what two successive calls of the sampler resolve to, for the collection, the
\* toggle and the map terrain of the state: the second call finds the cache the
\* first one left behind, as it is or, when more than maxAge lies between the
\* calls, with its entries expired
TwoCalls(aged) ==
    LET first == sampleTerrainAsync(geoJson, terrainEnabled, mapTerrain, terrainCache)
        left == IF aged THEN cacheAfterMaxAge(first.cache) ELSE first.cache
        second == sampleTerrainAsync(geoJson, terrainEnabled, mapTerrain, left)
    IN  <<[elevatedFeatures |-> first.elevatedFeatures,
           groundRoutePaths |-> first.groundRoutePaths],
          [elevatedFeatures |-> second.elevatedFeatures,
           groundRoutePaths |-> second.groundRoutePaths]>>

\* C30: whenever no pass is in flight, two successive calls of the sampler with
\* the same collection, the same toggle value and the same map terrain resolve
\* to equal elevated elements and equal dense route paths, whatever the cache
\* holds and whether or not its entries expire between the calls.
C30_SamplerIdempotent ==
    ~terrainSamplingInProgressRef =>
        \A aged \in BOOLEAN : TwoCalls(aged)[1] = TwoCalls(aged)[2]

-----------------------------------------------------------------------------
(* Properties of the selection, the menus and the edits *)

\* C31: in every reachable state the selection holds at most one index.
C31_AtMostOneSelected == Len(selectedFeatureIndexes) <= 1

\* the second element of a collection of two is the one selected, in view mode
\* with the flyout open
C31_Witness ==
    /\ event.op = "other"
    /\ Len(geoJson) = 2
    /\ selectedFeatureIndexes = <<1>>
    /\ activeMode = "view"
    /\ showMissionFlyout
    /\ ~missionMenu.visible

\* what the extrusion of the view holds for its zoned elements: nothing for an
\* outline of fewer than 2 vertices, and for every other outline one border over
\* all its vertices, at least one wall, and the ceiling its type calls for
ExtrusionSkipsShortOutlines ==
    \A i \in 0..(Len(dataWithElevation) - 1) :
        LET feature == dataWithElevation[i + 1]
            type == feature.properties.featureType
        IN  type \in {"geofence", "nfz", "searchZone"} =>
               IF Len(feature.coordinates) = 0 \/ Len(feature.coordinates[1]) < 2
               THEN /\ TaggedIn(extrusion.wallSegments, i) = 0
                    /\ TaggedIn(extrusion.borderData, i) = 0
                    /\ TaggedIn(extrusion.ceilingData, i) = 0
               ELSE /\ TaggedIn(extrusion.wallSegments, i) >= 1
                    /\ \E k \in 1..Len(extrusion.borderData) :
                          /\ extrusion.borderData[k].featureIndex = i
                          /\ Len(extrusion.borderData[k].path) = Len(feature.coordinates[1])
                    /\ TaggedIn(extrusion.ceilingData, i) = (IF type = "geofence" THEN 0 ELSE 1)

\* what a step of a sampling pass does with malformed and well-formed elements
\* alike: a batch returns every element of its range with its own longitudes,
\* latitudes and properties; the turn of a ground route builds an empty path for
\* fewer than 2 vertices and a path through every vertex otherwise; the pass is
\* published with one element per input element and one path per ground route
SamplerSkipsShortRoutes ==
    SamplingResumes =>
       /\ BatchRuns =>
             /\ Len(BatchOutput) = Len(pass.elevatedFeatures) + Cardinality(batchIndexes)
             /\ \A i \in batchIndexes :
                   LET in == pass.features[i + 1]
                       out == BatchOutput[i + 1]
                   IN  /\ out.geomType = in.geomType
                       /\ out.properties = in.properties
                       /\ stripElevation(out.coordinates, Depth(in.geomType)) = in.coordinates
       /\ ~BatchRuns =>
             LET route == RouteOutput.feature
             IN  /\ route = pass.features[RouteOutput.featureIndex + 1]
                 /\ IF Len(route.coordinates) < 2
                    THEN RouteOutput.densePath = <<>>
                    ELSE /\ Len(RouteOutput.densePath) > Len(route.coordinates)
                         /\ \A v \in 1..Len(route.coordinates) :
                               \E j \in 1..Len(RouteOutput.densePath) :
                                  LngLat(RouteOutput.densePath[j]) = route.coordinates[v]
       /\ ~terrainSamplingInProgressRef' =>
             /\ elevatedGeoJson' # None
             /\ Len(elevatedGeoJson'[1]) = Len(pass.features)
             /\ Len(groundRoutePathsCache') = Cardinality(RoutePositions(pass.features))

PassStarts == ~terrainSamplingInProgressRef /\ terrainSamplingInProgressRef'

\* the smaller of 5 and the number of elements the pass has not assembled yet
NextBatchLength ==
    IF Len(pass.features) - Len(pass.elevatedFeatures) < 5
    THEN Len(pass.features) - Len(pass.elevatedFeatures)
    ELSE 5

\* C33: with terrain enabled the call of the sampler processes nothing before
\* it has yielded; every resumption processes the next consecutive batch, of at
\* most 5 elements, appending to what is assembled the elevated form of each
\* element of the batch in input order with type and properties unchanged; no
\* other handler that runs while the pass is suspended touches the input or
\* the assembled output of the pass; and the published output has one element
\* per input element.
C33_BatchesOfFive ==
    [][/\ PassStarts =>
             /\ pass'.i = 0 /\ pass'.elevatedFeatures = <<>>
             /\ terrainCache' = terrainCache
       /\ BatchRuns =>
             /\ pass.i = Len(pass.elevatedFeatures)
             /\ Len(BatchOutput) = Len(pass.elevatedFeatures) + NextBatchLength
             /\ \A k \in 1..Len(pass.elevatedFeatures) :
                   BatchOutput[k] = pass.elevatedFeatures[k]
             /\ \A k \in (Len(pass.elevatedFeatures) + 1)..Len(BatchOutput) :
                   /\ BatchOutput[k].geomType = pass.features[k].geomType
                   /\ BatchOutput[k].properties = pass.features[k].properties
                   /\ Len(BatchOutput[k].coordinates) = 3
                   /\ LngLat(BatchOutput[k].coordinates) = pass.features[k].coordinates
                   /\ mapTerrain /\ k - 1 \in batchMisses =>
                         BatchOutput[k].coordinates = Draped(pass.features[k].coordinates, 0)
             /\ ~terrainSamplingInProgressRef' => Len(BatchOutput) = Len(pass.features)
       /\ (terrainSamplingInProgressRef /\ ~SamplingResumes) =>
             /\ terrainSamplingInProgressRef'
             /\ pass' = pass]_vars

\* a pass over 11 elements is suspended after its first batch of 5, which ran
\* with terrain on the map, and the terrain toggle was switched off since
C33_Witness ==
    /\ terrainSamplingInProgressRef
    /\ Len(pass.features) = 11
    /\ pass.i = 5 /\ Len(pass.elevatedFeatures) = 5
    /\ pass.elevatedFeatures[1].coordinates[3] > 10
    /\ ~terrainEnabled /\ ~mapTerrain

\* the step completes a secondary-button tap (a press released before
\* HOLD_THRESHOLD without pointer movement, in either order of contextmenu and
\* mouseup) or a trackpad tap (a contextmenu event more than TRACKPAD_STALE
\* after the last press): a context-menu request
TapCompletes ==
    /\ Completes
    /\ \/ gesture'.kind = "trackpad" /\ gesture'.held > TRACKPAD_STALE
       \/ /\ gesture'.kind = "secondary"
          /\ gesture'.held < HOLD_THRESHOLD
          /\ ~gesture'.moved
          /\ ~gesture'.cameraEntered

\* C34: in any draw mode a context-menu request cancels the drawing: the mode
\* becomes view, the selection is empty, the collection is unchanged, and the
\* gesture opens no menu.
C34_TapCancelsDrawing ==
    [][(TapCompletes /\ activeMode \notin {"view", "modify"}) =>
          /\ activeMode' = "view"
          /\ selectedFeatureIndexes' = <<>>
          /\ geoJson' = geoJson
          /\ gesture'.menus = 0
          /\ missionMenu' = missionMenu
          /\ ~missionMenu'.visible]_vars

\* a secondary-button tap made while drawing a no-fly zone has completed: the
\* mode is view and no menu is open
C34_Witness ==
    /\ gesture.phase = "done" /\ gesture.kind = "secondary"
    /\ gesture.held < HOLD_THRESHOLD /\ ~gesture.moved
    /\ gesture.mode = "nfz"
    /\ gesture.menus = 0
    /\ activeMode = "view"
    /\ selectedFeatureIndexes = <<>>
    /\ ~missionMenu.visible

\* C35: in every reachable state every index in the selection is a position of
\* the collection, also while the elevated view that is drawn and picked lags
\* behind the collection.
C35_SelectionInRange ==
    \A k \in 1..Len(selectedFeatureIndexes) :
        selectedFeatureIndexes[k] >= 0 /\ selectedFeatureIndexes[k] < Len(geoJson)

\* the step is the Delete item of the feature menu, chosen while the gesture
\* observed last is the one that opened that menu on an element
MenuDeleteChosen ==
    /\ missionMenu.visible /\ missionMenu.featureIndex # None
    /\ missionMenu' = ClosedMenu
    /\ gesture' = gesture
    /\ gesture.phase = "done" /\ gesture.menus = 1
    /\ gesture.hit = missionMenu.featureIndex
    /\ gesture.target # None

\* C36: the Delete item of a feature menu removes the element the menu was
\* opened on and no other: the collection afterwards is the collection without
\* one occurrence of that element, or the unchanged collection if the element
\* is no longer in it.
C36_MenuDeleteRemovesItsElement ==
    [][MenuDeleteChosen =>
          LET at == {i \in 0..(Len(geoJson) - 1) : geoJson[i + 1] = gesture.target[1]}
          IN  IF at = {} THEN geoJson' = geoJson
              ELSE \E i \in at : geoJson' = FilterOut(geoJson, {i})]_vars

\* the step is an edit the edit-geometry collaborator reported that is not a
\* commit: a vertex move in modify mode or a tentative position while drawing
NonCommitEdit == event'.op \in {"movePosition", "addTentativePosition"}

\* the positions of the collection the reported edit is about: the moved element
\* for a vertex move, none for a tentative position
EditedPositions ==
    IF event'.op = "movePosition" THEN {event'.hit[1] + 1} ELSE {}

\* C37: an edit that is not a commit keeps the number of stored elements and
\* every element other than the edited one, also while the elevated view that
\* was handed to the collaborator lags behind the collection.
C37_EditKeepsOtherElements ==
    [][NonCommitEdit =>
          /\ Len(geoJson') = Len(geoJson)
          /\ \A j \in 1..Len(geoJson) :
                j \notin EditedPositions => geoJson'[j] = geoJson[j]]_vars

\* the step toggles terrain on over a collection that holds elements
TerrainToggledOn == ~terrainEnabled /\ terrainEnabled' /\ Len(geoJson) > 0

\* after the step the elevated view holds every element of the collection with
\* the elevation of the terrain plus the offset 10 on every coordinate
ViewDrapedAfter ==
    /\ elevatedGeoJson' # None
    /\ Len(elevatedGeoJson'[1]) = Len(geoJson')
    /\ \A i \in 1..Len(geoJson') :
          elevatedGeoJson'[1][i].coordinates =
              DrapedOrOffset(geoJson'[i].coordinates, Depth(geoJson'[i].geomType))

\* C38: toggling terrain on over a non-empty collection leads to a draped
\* elevated view without a geometry change. Once the toggle has run, only a
\* pass in flight can still change the view of an unchanged collection, so the
\* toggle leaves either a pass in flight or a view that is already draped.
C38_ToggleOnDrapes ==
    [][TerrainToggledOn => (terrainSamplingInProgressRef' \/ ViewDrapedAfter)]_vars

C40_DrawModeHasNoSelectionNoMenu ==
    IsDrawing(activeMode) => (selectedFeatureIndexes = <<>> /\ ~missionMenu.visible)

\* a draw mode chosen in the add menu right after a drawing was committed (the
\* commit selected the new element and no double click has consumed the finish
\* mark yet), with the flyout open: nothing is selected and no menu is visible
C40_Witness ==
    /\ IsDrawing(activeMode)
    /\ drawJustFinishedRef
    /\ Len(geoJson) = 1
    /\ showMissionFlyout
    /\ selectedFeatureIndexes = <<>>
    /\ ~missionMenu.visible

====
